---- MODULE Spec2Model ----
(***************************************************************************)
(* Model of the AWK language server: the document registry, the include    *)
(* graph, the processing queue with its read gate (server.ts), and the     *)
(* per-document administration and function-call checker (awkdocument.ts). *)
(*                                                                         *)
(* AWKDocument objects live in the heap `docs` (object id -> fields); the  *)
(* registry maps URIs to object ids, so an object that was dropped from    *)
(* the registry but is still referenced by a queue item or by the callback *)
(* of a pending read is a different thing from the object registered later *)
(* under the same URI.                                                     *)
(*                                                                         *)
(* JavaScript handlers run to completion: `pc` is "idle" between handlers  *)
(* and names the position inside processNextQueueItem / validateText       *)
(* otherwise; no event handler is enabled unless pc = "idle".              *)
(***************************************************************************)
EXTENDS Integers, Sequences, FiniteSets, TLC

\* ------------------------------------------------------------------ bounds

\* AWKDocument objects ever constructed in one run
MaxDocs == 3
\* items waiting in processingQueue
MaxQueue == 2
\* @include directives in one text
MaxIncludes == 1
\* include edges between the documents the function checker runs on
MaxEdges == 2
\* function declarations in those documents
MaxDecls == 3
\* function declarations and call statements in those documents together
MaxLines == 3
\* entries of a usage list a position is looked up in
MaxUsages == 3
\* last line of such a list (lines count from 0)
MaxLine == 1
\* last column a usage of such a list starts in (columns count from 0)
MaxColumn == 3
\* identifiers in the declaration list of a function whose spacing is drawn
MaxFormals == 3
\* characters of ignored text in front of such an identifier
MaxBlanks == 2
\* parses of the document whose life is followed
MaxParses == 2
\* parser callbacks during those parses together
MaxEvents == 3
\* largest value of the setting maxNumberOfProblems
MaxProblems == 2
\* formal parameters of a declared function
MaxParams == 1
\* arguments of a call
MaxArgs == 2
\* call statements in those documents
MaxStmts == 1

\* ------------------------------------------------------------ input domains

\* URIs of files that exist on disk (fileExists is true for them)
Uris == {"a.awk", "b.awk", "c.awk"}
\* a file name for which no candidate path exists
NoFile == "m.awk"
Targets == Uris \cup {NoFile}

SeqsUpTo(S, n) == UNION {[1..k -> S] : k \in 0..n}

\* A text is abstracted to what the server's callbacks see of it: the include
\* directives in textual order (directive i on line i) and whether the parser
\* throws after the last of them.
Texts == [incl : SeqsUpTo(Targets, MaxIncludes), crash : BOOLEAN]

\* ---------------------------------------------------------------- state

VARIABLES
    docs,                \* heap of AWKDocument objects: Seq of field records
    documentMap,         \* registry, in Map insertion order: Seq of [key |-> uri, value |-> doc]
    processingQueue,     \* Seq of [doc, text]
    nrOpenReadRequests,  \* outstanding readFile calls
    pendingReads,        \* the callbacks of those calls: set of [doc, file]
    parseLevel,          \* validateText nesting depth
    openDocs,            \* the editor's open documents, in open order: Seq of [uri, text]
    pc,                  \* "idle" | "drain" | "parsing" | "config"; "build" | "checked"
    cur,                 \* the queue item being validated while pc = "parsing";
                         \* the document analysed when pc = "checked"
    todo,                \* documents a configuration change still has to enqueue
    swept,               \* TRUE iff the last step ended with finishUpProcessing
    callTexts,           \* the call statements parsed: Seq of [doc, line, call]
    config,              \* the server's settings
    stylisticWarnings,   \* the parser module's settings
    callbacks,           \* which function each callback variable of the parser
                         \* module holds: "undefined" | "server" | "grammar"; for
                         \* registerNumberOfParameters "undefined" | "document"
    includePath,         \* the server's include path: Seq of directory names
    awkPath,             \* process.env["AWKPATH"]: << >> for undefined, else the
                         \* string in a one-element list
    callbackDoc          \* the document the callbacks of validateTextDocument
                         \* close over: the one validated last, 0 before the first

vars == <<docs, documentMap, processingQueue, nrOpenReadRequests, pendingReads,
          parseLevel, openDocs, pc, cur, todo, swept, callTexts,
          config, stylisticWarnings, callbacks, includePath, awkPath, callbackDoc>>

\* the fake document that includes the documents open in the editor
editorDocument == 0

processingAllowed == TRUE

Pos(l, c) == [line |-> l, character |-> c]

\* NaN, where a position holds it: what the subtraction `"f" - 1` and the
\* addition of undefined to a number give. No line and no column is negative.
NaN == -999

\* position.character + nrChars, where nrChars is a number or NaN
positionOffset(position, nrChars) ==
    Pos(position.line,
        IF position.character = NaN \/ nrChars = NaN THEN NaN
        ELSE position.character + nrChars)

getRange(position, nrChars) ==
    [start |-> position, end |-> positionOffset(position, nrChars)]

\* path.positionCompare: negative, zero or positive
positionCompare(a, b) ==
    IF a.line # b.line THEN a.line - b.line ELSE a.character - b.character

\* ------------------------------------------- keyed collections, in order

\* A JavaScript Map, in insertion order: Seq of [key, value]
MapKeys(m) == {m[i].key : i \in 1..Len(m)}
MapHas(m, k) == k \in MapKeys(m)
MapGet(m, k) == m[CHOOSE i \in 1..Len(m) : m[i].key = k].value
MapSet(m, k, v) ==
    IF MapHas(m, k)
    THEN [i \in 1..Len(m) |-> IF m[i].key = k THEN [key |-> k, value |-> v] ELSE m[i]]
    ELSE Append(m, [key |-> k, value |-> v])
MapDelete(m, k) == SelectSeq(m, LAMBDA e : e.key # k)
MapValues(m) == {m[i].value : i \in 1..Len(m)}

\* util.EMap: a Map with object keys
EMapEmpty == << >>
EMapKeys(m) == MapKeys(m)
EMapHas(m, k) == MapHas(m, k)
EMapGet(m, k) == MapGet(m, k)
EMapSet(m, k, v) == MapSet(m, k, v)
EMapDelete(m, k) == MapDelete(m, k)

\* A JavaScript object used as a dictionary: `k in o`, o[k], o[k] = v. The
\* object is a plain one, so `in` and the read also find what every object
\* inherits from Object.prototype. Each of these names is an awk identifier.
PrototypeNames ==
    {"constructor", "toString", "toLocaleString", "valueOf", "hasOwnProperty",
     "isPrototypeOf", "propertyIsEnumerable", "__proto__", "__defineGetter__",
     "__defineSetter__", "__lookupGetter__", "__lookupSetter__"}

\* what the read of an inherited name returns: a function or an object, which
\* is no number; the model's tables hold numbers from 0 on
InheritedProperty == -2

\* what the read of a name returns that the object neither has nor inherits
undefined == -3

ObjHas(o, k) == MapHas(o, k) \/ k \in PrototypeNames
ObjGet(o, k) ==
    IF MapHas(o, k) THEN MapGet(o, k)
    ELSE IF k \in PrototypeNames THEN InheritedProperty ELSE undefined
\* the assignment of a number to __proto__ goes to the inherited setter, which
\* ignores it: no own key is made
ObjSet(o, k, v) == IF k = "__proto__" THEN o ELSE MapSet(o, k, v)

\* o[k] read as a condition, of an object whose own values are booleans: an
\* inherited function or object counts as true, undefined as false
ObjTruthy(o, k) == IF MapHas(o, k) THEN MapGet(o, k) ELSE k \in PrototypeNames

\* a < b of two values that are numbers, inherited properties or undefined:
\* the comparison with a function, an object or undefined is false
jsLess(a, b) ==
    /\ a \notin {InheritedProperty, undefined}
    /\ b \notin {InheritedProperty, undefined}
    /\ a < b

\* ----------------------------------------------------------- AWKDocument

\* init(): the parse-derived fields are reset; the previous function table is
\* kept as oldNumberOfParameters unless one is still waiting to be compared
init(d) ==
    [d EXCEPT !.definedSymbols = << >>,
              !.usedSymbols = << >>,
              !.positionTree = << >>,
              !.functionCallStack = << >>,
              !.parameterUsage = << >>,
              !.includes = EMapEmpty,
              !.oldNumberOfParameters =
                 IF ~d.oldNumberOfParameters.defined
                 THEN [defined |-> TRUE, value |-> d.numberOfParameters]
                 ELSE @,
              !.numberOfParameters = << >>]

\* functionInformationHasChanged(): [doc, change]. The two tables are compared
\* name by name, in both directions; the snapshot is used up.
functionInformationHasChanged(d) ==
    LET old == IF ~d.oldNumberOfParameters.defined THEN << >>
               ELSE d.oldNumberOfParameters.value
        change ==
           \/ \E i \in 1..Len(d.numberOfParameters) :
                 d.numberOfParameters[i].value # ObjGet(old, d.numberOfParameters[i].key)
           \/ \E i \in 1..Len(old) : ~ObjHas(d.numberOfParameters, old[i].key)
    IN [doc |-> [d EXCEPT !.oldNumberOfParameters = [defined |-> FALSE, value |-> << >>]],
        change |-> change]

\* new AWKDocument(uri): the field initialisers, then init()
NewDocument(u) ==
    init([uri |-> u,
          definedSymbols |-> << >>,
          usedSymbols |-> << >>,
          positionTree |-> << >>,
          functionCallStack |-> << >>,
          parameterUsage |-> << >>,
          includes |-> EMapEmpty,
          includedBy |-> EMapEmpty,
          numberOfParameters |-> << >>,
          oldNumberOfParameters |-> [defined |-> FALSE, value |-> << >>],
          parseDiagnostics |-> << >>,
          analysisDiagnostics |-> << >>,
          errorsChanged |-> FALSE])

\* clearIncludedBy applied to the heap h for document id: every document this
\* one includes forgets it. The second component is the returned inclChanges.
clearIncludedBy(h, id) ==
    [heap |-> [x \in DOMAIN h |->
                 IF x \in EMapKeys(h[id].includes)
                 THEN [h[x] EXCEPT !.includedBy = EMapDelete(@, id)]
                 ELSE h[x]],
     inclChanges |-> EMapKeys(h[id].includes) # {}]

\* mutant of addParseDiagnostic: every diagnostic is stored
addParseDiagnosticAlways(d, diag) ==
    [d EXCEPT !.parseDiagnostics = Append(@, diag), !.errorsChanged = TRUE]

addParseDiagnostic(d, diag) ==
    IF \/ Len(d.parseDiagnostics) = 0
       \/ positionCompare(d.parseDiagnostics[Len(d.parseDiagnostics)].range.start,
                          diag.range.start) # 0
    THEN [d EXCEPT !.parseDiagnostics = Append(@, diag), !.errorsChanged = TRUE]
    ELSE d

resetParseDiagnostics(d) ==
    [d EXCEPT !.errorsChanged = TRUE, !.parseDiagnostics = << >>]

addIncludes(d, includedDoc, incl) ==
    LET w == IF EMapHas(d.includes, includedDoc)
             THEN addParseDiagnostic(d, [severity |-> 2, range |-> incl.range,
                                         message |-> "repeated include"])
             ELSE d
    IN [w EXCEPT !.includes = EMapSet(@, includedDoc, incl)]

addIncludedBy(d, includingDoc, incl) ==
    [d EXCEPT !.includedBy = EMapSet(@, includingDoc, incl)]

removeIncludedBy(d, includingDoc) ==
    [d EXCEPT !.includedBy = EMapDelete(@, includingDoc)]

\* mutant of isIncluded: tests the includes map instead of includedBy
isIncludedTestsIncludes(d) == Len(d.includes) # 0

isIncluded(d) == Len(d.includedBy) # 0

\* clear(): sever the outgoing edges, reset the parse-derived fields
\* mutant of clear: the outgoing include edges are not severed
clearKeepsIncludedBy(h, id) == [h EXCEPT ![id] = resetParseDiagnostics(init(@))]

clear(h, id) ==
    LET h1 == clearIncludedBy(h, id).heap
    IN [h1 EXCEPT ![id] = resetParseDiagnostics(init(@))]

\* close(connection): sever the outgoing edges; the fields are left as they are
close(h, id) == clearIncludedBy(h, id)

\* ------------------------------------------- AWKDocument: symbols and calls

\* new SymbolDefinition(...). scope is the name of the function the symbol is
\* defined in, "" for undefined.
SymbolDefinition(document, position, type, docComment, scope, symbol, isImplicitDefinition) ==
    [document |-> document, position |-> position, type |-> type,
     docComment |-> docComment, scope |-> scope, symbol |-> symbol,
     isImplicitDefinition |-> isImplicitDefinition, parameters |-> << >>,
     localVariables |-> << >>]

SymbolUsage(symbol, type, position) ==
    [symbol |-> symbol, type |-> type, position |-> position]

\* The symbol field holds a string. A caller that hands over its arguments
\* one place off stores undefined, a boolean or a definition object there;
\* each is written as a text that is no awk identifier.
undefinedSymbol == "<undefined>"
booleanSymbol(b) == IF b THEN "<true>" ELSE "<false>"
objectSymbol == "[object Object]"

\* symbol.length: undefined for a boolean and for an object that is no string,
\* which makes the sum with a column NaN
symbolLength(symbol) ==
    IF symbol \in {booleanSymbol(TRUE), booleanSymbol(FALSE), objectSymbol} THEN NaN
    ELSE Len(symbol)

\* SymbolUsage.getRange / SymbolDefinition.getRange
symbolRange(s) ==
    getRange(s.position, IF s.symbol = undefinedSymbol THEN 10 ELSE symbolLength(s.symbol))

ParameterUsage(functionName, parameterIndex, position, start) ==
    [functionName |-> functionName, parameterIndex |-> parameterIndex,
     position |-> position, start |-> start]

getSymbolDefineType(t) ==
    CASE t = "func" -> "defineFunc"
      [] t = "localVariable" -> "defineLocalVariable"
      [] t = "globalVariable" -> "defineGlobalVariable"
      [] t = "parameter" -> "defineParameter"
      [] OTHER -> t

\* enum SymbolType, in the order of its members: member i has the value i - 1
SymbolType ==
    <<"func", "globalVariable", "localVariable", "parameter",
      "defineFunc", "defineGlobalVariable", "defineLocalVariable", "defineParameter">>

\* the numeric value of an enum member
SymbolTypeValue(t) == CHOOSE v \in 0..(Len(SymbolType) - 1) : SymbolType[v + 1] = t

removeSymbolDefineType(t) ==
    CASE t = "defineFunc" -> "func"
      [] t = "defineLocalVariable" -> "localVariable"
      [] t = "defineParameter" -> "parameter"
      [] OTHER -> t

isSymbolDefineType(t) == SymbolTypeValue(t) >= SymbolTypeValue("defineFunc")

\* doc.addSymbolDefinition: definedSymbols[type] maps a symbol to the list of
\* its definitions
docAddSymbolDefinition(d, symbol, symbolDefinition) ==
    LET type == symbolDefinition.type
        map == IF MapHas(d.definedSymbols, type)
               THEN MapGet(d.definedSymbols, type) ELSE << >>
        defs == IF MapHas(map, symbol) THEN MapGet(map, symbol) ELSE << >>
    IN [d EXCEPT !.definedSymbols =
            MapSet(@, type, MapSet(map, symbol, Append(defs, symbolDefinition)))]

\* the result is << >> where the code returns undefined
getSymbolDefinitions(d, symbol, type) ==
    IF MapHas(d.definedSymbols, type) /\ MapHas(MapGet(d.definedSymbols, type), symbol)
    THEN MapGet(MapGet(d.definedSymbols, type), symbol)
    ELSE << >>

isSymbolDefined(d, symbol, type) ==
    MapHas(d.definedSymbols, type) /\ MapHas(MapGet(d.definedSymbols, type), symbol)

docAddSymbolUsage(d, usage) == [d EXCEPT !.usedSymbols = Append(@, usage)]

registerFunctionCall(d, start, position) ==
    IF start
    THEN [d EXCEPT !.functionCallStack = Append(@, d.usedSymbols[Len(d.usedSymbols)])]
    ELSE LET n == Len(d.functionCallStack)
             funcCallSym == d.functionCallStack[n]
         IN [d EXCEPT !.functionCallStack = SubSeq(@, 1, n - 1),
                      !.parameterUsage =
                         Append(@, ParameterUsage(funcCallSym, -1, position, start))]

registerFunctionCallParameter(d, parameterIndex, start, line, position) ==
    [d EXCEPT !.parameterUsage =
        Append(@, ParameterUsage(d.functionCallStack[Len(d.functionCallStack)],
                                 parameterIndex, Pos(line, position), start))]

registerNumberOfParameters(d, fn) ==
    [d EXCEPT !.numberOfParameters = ObjSet(@, fn.symbol, Len(fn.parameters))]

addAnalysisDiagnostic(d, diag) ==
    [d EXCEPT !.analysisDiagnostics = Append(@, diag), !.errorsChanged = TRUE]

resetAnalysisDiagnostics(d) ==
    IF Len(d.analysisDiagnostics) # 0
    THEN [d EXCEPT !.errorsChanged = TRUE, !.analysisDiagnostics = << >>]
    ELSE d

\* Diagnostic.create(range, message): no severity is given; 0 stands for that
DiagnosticCreate(range, message) ==
    [severity |-> 0, range |-> range, message |-> message]

\* ------------------------------------------- AWKDocument: sendDiagnostics

Orders(n) == {p \in [1..n -> 1..n] : \A i, j \in 1..n : p[i] = p[j] => i = j}

\* the first comparator, a.severity! - b.severity!: NaN when a severity is
\* undefined, which Array.prototype.sort takes as 0
severityCompare(a, b) ==
    IF a.severity = 0 \/ b.severity = 0 THEN 0 ELSE a.severity - b.severity

\* The results the first sort can have. The sort is stable; when the
\* comparator is no consistent ordering of the elements (an element without
\* severity between two of different severity) the order is up to the
\* implementation.
sortBySeverity(diagnostics) ==
    LET n == Len(diagnostics)
        c(i, j) == severityCompare(diagnostics[i], diagnostics[j])
        consistent ==
           \A i, j, k \in 1..n : (c(i, j) = 0 /\ c(j, k) = 0) => c(i, k) = 0
        ordered(p) ==
           \A i, j \in 1..n :
              i < j => \/ c(p[i], p[j]) < 0
                       \/ c(p[i], p[j]) = 0 /\ p[i] < p[j]
    IN {[i \in 1..n |-> diagnostics[p[i]]] :
          p \in {q \in Orders(n) : ~consistent \/ ordered(q)}}

\* the second sort, by positionCompare of the start positions
sortByPosition(diagnostics) ==
    LET n == Len(diagnostics)
        c(i, j) == positionCompare(diagnostics[i].range.start, diagnostics[j].range.start)
        p == CHOOSE q \in Orders(n) :
                \A i, j \in 1..n :
                   i < j => \/ c(q[i], q[j]) < 0
                            \/ c(q[i], q[j]) = 0 /\ q[i] < q[j]
    IN [i \in 1..n |-> diagnostics[p[i]]]

\* mutant of docSendDiagnostics: the change flag stays set
docSendDiagnosticsKeepsFlag(d, maxNumberOfProblems) ==
    IF d.errorsChanged
    THEN {[doc |-> d, sent |-> TRUE,
           diagnostics |-> d.parseDiagnostics \o d.analysisDiagnostics]}
    ELSE {[doc |-> d, sent |-> FALSE, diagnostics |-> << >>]}

\* AWKDocument.sendDiagnostics: the set of possible [doc, sent, diagnostics];
\* sent tells whether connection.sendDiagnostics was called, diagnostics is
\* the list it was called with
docSendDiagnostics(d, maxNumberOfProblems) ==
    IF d.errorsChanged
    THEN LET diagnostics == d.parseDiagnostics \o d.analysisDiagnostics
         IN {[doc |-> [d EXCEPT !.errorsChanged = FALSE],
              sent |-> TRUE,
              diagnostics |->
                 IF Len(diagnostics) > maxNumberOfProblems
                 THEN sortByPosition(SubSeq(x, 1, maxNumberOfProblems))
                 ELSE diagnostics] :
               x \in sortBySeverity(diagnostics)}
    ELSE {[doc |-> d, sent |-> FALSE, diagnostics |-> << >>]}

\* -------------------------------------------- AWKDocument: position tree

\* createPathPositionNode(tree, path, position): [tree, node]; the node of a
\* path is made when the path is met first and found afterwards. The tree is
\* the list of its nodes in the order made; Pos(-1, -1) stands for undefined.
createPathPositionNode(tree, path, position) ==
    IF \E i \in 1..Len(tree) : tree[i].path = path
    THEN [tree |-> tree, node |-> CHOOSE i \in 1..Len(tree) : tree[i].path = path]
    ELSE [tree |-> Append(tree, [path |-> path, start |-> position,
                                 avStart |-> Pos(-1, -1), end |-> Pos(-1, -1)]),
          node |-> Len(tree) + 1]

beginPathFun(d, path, position) ==
    [d EXCEPT !.positionTree = createPathPositionNode(@, path, position).tree]

\* findPathPositionNode(tree, path): the node of the path, 0 for undefined
findPathPositionNode(tree, path) ==
    IF \E i \in 1..Len(tree) : tree[i].path = path
    THEN CHOOSE i \in 1..Len(tree) : tree[i].path = path
    ELSE 0

endPathFun(d, path, position) ==
    LET node == findPathPositionNode(d.positionTree, path)
    IN IF node # 0 /\ d.positionTree[node].end = Pos(-1, -1)
       THEN [d EXCEPT !.positionTree[node].end = position]
       ELSE d

beginEmbeddingFun(d, path, position) ==
    LET r == createPathPositionNode(d.positionTree, path, position)
    IN [d EXCEPT !.positionTree = [r.tree EXCEPT ![r.node].avStart = position]]

endEmbeddingFun(d, path, position) ==
    LET node == findPathPositionNode(d.positionTree, path)
    IN IF node # 0
       THEN [d EXCEPT !.positionTree[node].end = position]
       ELSE d

\* finishPositionTree(tree), which validateText calls when the parser is
\* done: a node whose end is still undefined gets one, a node that has an end
\* keeps it. The end given is the node's start, the one position the node is
\* known to have.
finishPositionTree(tree) ==
    [i \in 1..Len(tree) |->
        IF tree[i].end = Pos(-1, -1) THEN [tree[i] EXCEPT !.end = tree[i].start]
        ELSE tree[i]]

\* ------------------------------------------------------ built-in symbols

\* Number.MAX_SAFE_INTEGER; the largest integer of the model stands for it
MAX_SAFE_INTEGER == 2147483647

\* The entries of builtInSymbols the model's texts refer to. A field the table
\* leaves undefined is -1 here: parameters is the length of the parameter list.
\* awk tells that plain awk has the symbol too.
builtInSymbols ==
    << [key |-> "sin",    value |-> [parameters |-> 1, firstOptional |-> -1, maxNrArguments |-> -1, awk |-> TRUE]],
       [key |-> "rand",   value |-> [parameters |-> 0, firstOptional |-> -1, maxNrArguments |-> -1, awk |-> TRUE]],
       [key |-> "substr", value |-> [parameters |-> 3, firstOptional |-> 2, maxNrArguments |-> -1, awk |-> TRUE]],
       [key |-> "NR",     value |-> [parameters |-> -1, firstOptional |-> -1, maxNrArguments |-> -1, awk |-> TRUE]] >>

\* ------------------------------------------------------ checkFunctionCalls

\* util.transitiveClosure(set, next): the set grows, in place, by the documents
\* reachable over includes from its members; a document that is in the set is
\* not added again. The call hands over the included documents only, so the
\* document the closure is computed for enters the set when an include path
\* leads back to it. set is a Seq without duplicates, in the insertion order
\* of the Set.
RECURSIVE transitiveClosure(_, _, _)
transitiveClosure(h, set, i) ==
    IF i > Len(set) THEN set
    ELSE LET next == h[set[i]].includes
             keys == [j \in 1..Len(next) |-> next[j].key]
             seen == {set[j] : j \in 1..Len(set)}
         IN transitiveClosure(h, set \o SelectSeq(keys, LAMBDA x : x \notin seen), i + 1)

\* new Set(this.includes.keys())
includesKeys(h, this) == [j \in 1..Len(h[this].includes) |-> h[this].includes[j].key]

\* mutant of includedDocs: the included documents are not followed further
includedDocsDirectOnly(h, this) == includesKeys(h, this)

\* includedDocs after the call of transitiveClosure
includedDocs(h, this) == transitiveClosure(h, includesKeys(h, this), 1)

\* The inner for-in loop: the functions of one included document, in the order
\* of their first declaration. M = [doc, numberOfParameters]: this document
\* (which collects the diagnostics) and the combined table. The message is a
\* double-quoted string in the code, so its text is the literal one (with
\* backquotes around the placeholder, which a TLA+ string cannot hold).
RECURSIVE mergeFunDefs(_, _, _)
mergeFunDefs(M, funDefs, j) ==
    IF j > Len(funDefs) THEN M
    ELSE LET funName == funDefs[j].key
             funDef == getSymbolDefinitions(M.doc, funName, "func")
             M1 == IF ObjHas(M.numberOfParameters, funName)
                   THEN IF ObjHas(M.doc.numberOfParameters, funName) /\ Len(funDef) > 0
                        THEN [M EXCEPT !.doc = addAnalysisDiagnostic(@,
                                  DiagnosticCreate(symbolRange(funDef[1]),
                                                   "already defined in ${inclDoc.uri}"))]
                        ELSE M
                   ELSE [M EXCEPT !.numberOfParameters =
                            ObjSet(@, funName, funDefs[j].value)]
         IN mergeFunDefs(M1, funDefs, j + 1)

\* the for-of loop over includedDocs
RECURSIVE mergeIncluded(_, _, _, _)
mergeIncluded(h, M, incl, i) ==
    IF i > Len(incl) THEN M
    ELSE mergeIncluded(h,
           mergeFunDefs(M, h[incl[i]].numberOfParameters, 1),
           incl, i + 1)

getNrParametersRange(numberOfParameters, fnName) ==
    IF ObjHas(numberOfParameters, fnName)
    THEN <<ObjGet(numberOfParameters, fnName), ObjGet(numberOfParameters, fnName)>>
    ELSE IF ObjHas(builtInSymbols, fnName)
    THEN LET bif == ObjGet(builtInSymbols, fnName)
         IN IF bif.parameters = -1
            THEN <<-1, MAX_SAFE_INTEGER>>
            ELSE LET max == IF bif.maxNrArguments # -1
                            THEN bif.maxNrArguments ELSE bif.parameters
                 IN IF bif.firstOptional # -1
                    THEN <<bif.firstOptional, max>> ELSE <<max, max>>
    ELSE <<-1, MAX_SAFE_INTEGER>>

checkFunctionExistence(d, fn, numberOfParameters) ==
    LET sym == fn.symbol
    IN IF ~ObjHas(numberOfParameters, sym) /\ ~ObjHas(builtInSymbols, sym)
       THEN addAnalysisDiagnostic(d, DiagnosticCreate(symbolRange(fn), "undeclared function"))
       ELSE d

\* The for loop over parameterUsage. The grammar emits balanced events, so the
\* stacks are not empty where the code reads or pops their top.
RECURSIVE replayParameterUsage(_, _, _, _, _)
replayParameterUsage(d, numberOfParameters, i, nrParamRangeStack, nrParametersStack) ==
    IF i > Len(d.parameterUsage) THEN d
    ELSE LET param == d.parameterUsage[i]
             n == Len(nrParametersStack)
         IN IF param.start
            THEN LET first == param.parameterIndex <= 0
                     ranges == IF first
                               THEN Append(nrParamRangeStack,
                                           getNrParametersRange(numberOfParameters,
                                                                param.functionName.symbol))
                               ELSE nrParamRangeStack
                     counts == IF first THEN Append(nrParametersStack, 0)
                               ELSE nrParametersStack
                     d1 == IF first
                           THEN checkFunctionExistence(d, param.functionName,
                                                       numberOfParameters)
                           ELSE d
                 IN replayParameterUsage(d1, numberOfParameters, i + 1, ranges,
                        [counts EXCEPT ![Len(counts)] = param.parameterIndex + 1])
            ELSE IF param.parameterIndex = -1
            THEN LET minNrParams == nrParamRangeStack[n][1]
                     maxNrParams == nrParamRangeStack[n][2]
                     nrParameters == nrParametersStack[n]
                     d1 == IF jsLess(nrParameters, minNrParams)
                           THEN addAnalysisDiagnostic(d,
                                   DiagnosticCreate(symbolRange(param.functionName),
                                                    "not enough arguments"))
                           ELSE IF jsLess(maxNrParams, nrParameters)
                           THEN addAnalysisDiagnostic(d,
                                   DiagnosticCreate(symbolRange(param.functionName),
                                                    "too many arguments"))
                           ELSE d
                 IN replayParameterUsage(d1, numberOfParameters, i + 1,
                        SubSeq(nrParamRangeStack, 1, n - 1),
                        SubSeq(nrParametersStack, 1, n - 1))
            ELSE replayParameterUsage(d, numberOfParameters, i + 1,
                                      nrParamRangeStack, nrParametersStack)

\* checkFunctionCalls() of document `this` of heap h: the document afterwards
\* mutant of checkFunctionCalls: a document without recorded call returns
\* right behind the reset
checkFunctionCallsReturnsFirst(h, this) ==
    LET M == mergeIncluded(h,
                 [doc |-> resetAnalysisDiagnostics(h[this]),
                  numberOfParameters |-> h[this].numberOfParameters],
                 includedDocs(h, this), 1)
    IN IF Len(h[this].parameterUsage) = 0
       THEN resetAnalysisDiagnostics(h[this])
       ELSE replayParameterUsage(M.doc, M.numberOfParameters, 1, << >>, << >>)

checkFunctionCalls(h, this) ==
    LET M == mergeIncluded(h,
                 [doc |-> resetAnalysisDiagnostics(h[this]),
                  numberOfParameters |-> h[this].numberOfParameters],
                 includedDocs(h, this), 1)
    IN IF Len(h[this].parameterUsage) = 0
       THEN M.doc
       ELSE replayParameterUsage(M.doc, M.numberOfParameters, 1, << >>, << >>)

\* ------------------------------------------------------------------- heap

\* A position of the heap whose object the runtime has reclaimed: nothing
\* refers to the object any more. No document has the empty URI.
FreeSlot == NewDocument("")

\* `new AWKDocument(uri)`: the position of the object constructed next, a
\* reclaimed one if there is one
alloc(h) ==
    IF \E i \in DOMAIN h : h[i] = FreeSlot
    THEN CHOOSE i \in DOMAIN h : h[i] = FreeSlot /\ \A j \in 1..(i - 1) : h[j] # FreeSlot
    ELSE Len(h) + 1

\* the heap with object d constructed at position id
construct(h, id, d) == IF id <= Len(h) THEN [h EXCEPT ![id] = d] ELSE Append(h, d)

\* the objects the heap holds
NrObjects(h) == Cardinality({i \in DOMAIN h : h[i] # FreeSlot})

\* -------------------------------------------------------------- filesystem

\* fileExists(fn): the files of Uris exist, NoFile does not
fileExists(fn) == fn \in Uris

\* makeRelativePathName / makeAbsolutePathName followed by the fileExists
\* filter: the first existing candidate, or "undefined"
inclFileNameOf(filename) == IF fileExists(filename) THEN filename ELSE "undefined"

\* makeURI(fileName): file names of the model are their own URIs
makeURI(fn) == fn

\* readFile(fn, callback): the call counts as outstanding at once; the callback
\* (which holds newDoc) runs later, after the count was decremented
readFile(S, fn, newDoc) ==
    [S EXCEPT !.nrOpenReadRequests = @ + 1,
              !.pendingReads = @ \cup {[doc |-> newDoc, file |-> fn]}]

\* ------------------------------------------------------------------ server

\* new IncludeDeclarationInfo(range). obj is the identity of the object: one
\* is constructed for each constructed AWKDocument, whose id names it.
IncludeDeclarationInfo(obj, range) == [obj |-> obj, range |-> range]

\* mutant of updateInclude: the included document gets an info object of its own
updateIncludeTwoInfos(h, includingDoc, includedDoc, range) ==
    [h EXCEPT ![includingDoc] =
                 addIncludes(@, includedDoc, IncludeDeclarationInfo(includedDoc, range)),
              ![includedDoc] =
                 addIncludedBy(@, includingDoc, IncludeDeclarationInfo(0 - includedDoc, range))]

updateInclude(h, includingDoc, includedDoc, range) ==
    LET inclInfo == IncludeDeclarationInfo(includedDoc, range)
    IN [h EXCEPT ![includingDoc] = addIncludes(@, includedDoc, inclInfo),
                 ![includedDoc] = addIncludedBy(@, includingDoc, inclInfo)]

\* S = [docs, documentMap, nrOpenReadRequests, pendingReads]
\* mutant of addInclude: a file name without candidate path is treated like
\* that of an existing file
addIncludeIgnoresMissing(S, filename, position, length, includeSource) ==
    LET inclURI == makeURI(filename)
        newDoc == alloc(S.docs)
    IN IF MapHas(S.documentMap, inclURI)
       THEN S
       ELSE readFile(
              [S EXCEPT !.docs = updateInclude(construct(S.docs, newDoc, NewDocument(inclURI)),
                                               includeSource, newDoc,
                                               getRange(position, length)),
                        !.documentMap = MapSet(@, inclURI, newDoc)],
              filename, newDoc)

addInclude(S, filename, position, length, includeSource) ==
    LET inclFileName == inclFileNameOf(filename)
        inclURI == makeURI(inclFileName)
        newDoc == alloc(S.docs)
    IN IF inclFileName = "undefined"
       THEN [S EXCEPT !.docs[includeSource] =
                addParseDiagnostic(@, [severity |-> 1,
                                       range |-> getRange(position, length),
                                       message |-> "no such file: " \o filename \o " ("
                                                   \o S.docs[includeSource].uri \o ")"])]
       ELSE IF MapHas(S.documentMap, inclURI)
       THEN S
       ELSE readFile(
              [S EXCEPT !.docs = updateInclude(construct(S.docs, newDoc, NewDocument(inclURI)),
                                               includeSource, newDoc,
                                               getRange(position, length)),
                        !.documentMap = MapSet(@, inclURI, newDoc)],
              inclFileName, newDoc)

\* ignoreThisMessage() of messageFun: two kinds of warning are stored only
\* when the setting asks for them
ignoreThisMessage(type, subType) ==
    /\ type = "warning"
    /\ \/ subType = "comma" /\ ~config.stylisticWarnings.missingSemicolon
       \/ subType = "future" /\ ~config.stylisticWarnings.compatibility

\* Adds a message; ignores specific warnings
messageFun(d, type, subType, msg, position, length) ==
    IF ~ignoreThisMessage(type, subType)
    THEN addParseDiagnostic(d, [severity |-> IF type = "warning" THEN 2 ELSE 1,
                                range |-> getRange(position, length),
                                message |-> msg])
    ELSE d

\* Position (1-based, as the parser reports it) of the string token of the
\* i-th include directive: `@include "x.awk"` on line i
includeTokenPos(i) == [line |-> i, position |-> 10]

\* lastSymbolPos when the parser stops after n directives
lastSymbolPos(n) == IF n = 0 THEN [line |-> 1, position |-> 1] ELSE includeTokenPos(n)

\* parse(text): the include_line callbacks in textual order, as wired by
\* validateTextDocument's setIncludeFun
RECURSIVE parseIncludes(_, _, _, _)
parseIncludes(S, doc, incl, i) ==
    IF i > Len(incl) THEN S
    ELSE parseIncludes(
           addInclude(S, incl[i],
                      Pos(includeTokenPos(i).line - 1, includeTokenPos(i).position - 1),
                      7, doc),
           doc, incl, i + 1)

\* the try/catch of validateText
parseAndCatch(S, doc, text) ==
    LET S1 == parseIncludes(S, doc, text.incl, 1)
        p == lastSymbolPos(Len(text.incl))
    IN IF text.crash
       THEN [S1 EXCEPT !.docs[doc] =
                messageFun(@, "error", "exception", "parser crash",
                           Pos(p.line - 1, p.position - 1), 100)]
       ELSE S1

\* mutant of parseLevelAtReturn: the decrement is skipped when the parser threw
parseLevelAtReturnInsideTry(level, crashed) == IF crashed THEN level ELSE level - 1

\* parseLevel when validateText returns
parseLevelAtReturn(level, crashed) == level - 1

\* one for-of pass of closeEmptyDocuments over the registry entries
RECURSIVE sweepPass(_, _, _, _)
sweepPass(entries, i, F, inclChanges) ==
    IF i > Len(entries)
    THEN [docs |-> F.docs, documentMap |-> F.documentMap, inclChanges |-> inclChanges]
    ELSE IF ~isIncluded(F.docs[entries[i].value])
    THEN LET c == close(F.docs, entries[i].value)
         IN sweepPass(entries, i + 1,
                      [docs |-> c.heap,
                       documentMap |-> MapDelete(F.documentMap, entries[i].key)],
                      inclChanges \/ c.inclChanges)
    ELSE sweepPass(entries, i + 1, F, inclChanges)

\* F = [docs, documentMap]; the result also counts the passes made
RECURSIVE closeEmptyDocumentsFrom(_, _)
closeEmptyDocumentsFrom(F, passes) ==
    LET r == sweepPass(F.documentMap, 1, F, FALSE)
    IN IF r.inclChanges
       THEN closeEmptyDocumentsFrom([docs |-> r.docs, documentMap |-> r.documentMap],
                                    passes + 1)
       ELSE [docs |-> r.docs, documentMap |-> r.documentMap, passes |-> passes + 1]

closeEmptyDocuments(F) == closeEmptyDocumentsFrom(F, 0)

\* server sendDiagnostics: every registered document publishes if its flag is set
sendDiagnostics(F) ==
    [F EXCEPT !.docs = [x \in DOMAIN F.docs |->
                          IF x \in MapValues(F.documentMap)
                          THEN [F.docs[x] EXCEPT !.errorsChanged = FALSE]
                          ELSE F.docs[x]]]

finishUpProcessing(F) ==
    LET r == closeEmptyDocuments(F)
    IN sendDiagnostics([docs |-> r.docs, documentMap |-> r.documentMap])

\* mutant of loopCondition: the read gate is missing
loopConditionNoReadGate == processingAllowed /\ Len(processingQueue) # 0

\* the condition of the while loop of processNextQueueItem
loopCondition ==
    nrOpenReadRequests = 0 /\ processingAllowed /\ Len(processingQueue) # 0

\* ---------------------------------------------------- server: configuration

\* the default config
DefaultConfig ==
    [maxNumberOfProblems |-> 100, gawk |-> TRUE,
     stylisticWarnings |-> [missingSemicolon |-> FALSE, compatibility |-> TRUE]]

\* stylisticWarnings of the parser module as the module initialises it
DefaultStylisticWarnings ==
    [missingSemicolon |-> FALSE, gawkMode |-> TRUE, gawkCompatibility |-> TRUE,
     checkFunctionCalls |-> TRUE]

\* updateStylisticWarnings(cfg): the new value of stylisticWarnings. The
\* server's config has gawk, missingSemicolon and compatibility defined and
\* has no checkFunctionCalls.
updateStylisticWarnings(cfg) ==
    [stylisticWarnings EXCEPT
        !.gawkMode = cfg.gawk,
        !.missingSemicolon = cfg.stylisticWarnings.missingSemicolon,
        !.gawkCompatibility = cfg.stylisticWarnings.compatibility /\ ~cfg.gawk]

\* A string that is split is a Seq of one-character strings, and so is every
\* directory name.
\* str.split(sep)
RECURSIVE split(_, _)
split(str, sep) ==
    IF \E i \in 1..Len(str) : str[i] = sep
    THEN LET i == CHOOSE k \in 1..Len(str) :
                     str[k] = sep /\ \A j \in 1..(k - 1) : str[j] # sep
         IN <<SubSeq(str, 1, i - 1)>> \o split(SubSeq(str, i + 1, Len(str)), sep)
    ELSE <<str>>

\* the include path as the server starts with it: ["."]
DefaultIncludePath == << <<".">> >>

\* setIncludePath(ip): [includePath, changed]
setIncludePath(ip) ==
    IF Len(ip) = Len(includePath) /\ \A index \in 1..Len(ip) : includePath[index] = ip[index]
    THEN [includePath |-> includePath, changed |-> FALSE]
    ELSE [includePath |-> ip, changed |-> TRUE]

\* The settings the editor sends. A field is << >> for undefined and a list
\* of one value else: maxNumberOfProblems, mode, path (an Array of directory
\* names), stylisticWarnings, whose value has the fields missingSemicolon and
\* compatibility.
\* updateConfiguration(settings): [config, stylisticWarnings, includePath,
\* reparse]
updateConfiguration(settings) ==
    LET max == settings.maxNumberOfProblems
        newMax == max # <<config.maxNumberOfProblems>>
        c1 == IF newMax
              THEN [config EXCEPT !.maxNumberOfProblems =
                       IF max = << >> \/ max = <<0>> THEN 100 ELSE max[1]]
              ELSE config
        gawkMode == settings.mode = << >> \/ settings.mode = <<"gawk">>
        c2 == [c1 EXCEPT !.gawk = gawkMode]
        isObject == settings.stylisticWarnings # << >>
        sw == settings.stylisticWarnings[1]
        newSemicolon ==
           /\ isObject
           /\ sw.missingSemicolon # << >>
           /\ sw.missingSemicolon[1] # config.stylisticWarnings.missingSemicolon
        newCompatibility ==
           /\ isObject
           /\ sw.compatibility # << >>
           /\ sw.compatibility[1] # config.stylisticWarnings.compatibility
        c3 == IF newSemicolon
              THEN [c2 EXCEPT !.stylisticWarnings.missingSemicolon = sw.missingSemicolon[1]]
              ELSE c2
        c4 == IF newCompatibility
              THEN [c3 EXCEPT !.stylisticWarnings.compatibility = sw.compatibility[1]]
              ELSE c3
        ip == IF ~isObject THEN [includePath |-> includePath, changed |-> FALSE]
              ELSE IF settings.path # << >> THEN setIncludePath(settings.path[1])
              ELSE IF awkPath # << >> THEN setIncludePath(split(awkPath[1], ":"))
              ELSE setIncludePath(<< <<".">> >>)
    IN [config |-> c4,
        stylisticWarnings |-> IF isObject THEN updateStylisticWarnings(c4)
                              ELSE stylisticWarnings,
        includePath |-> ip.includePath,
        reparse |-> \/ newMax \/ config.gawk # gawkMode \/ newSemicolon
                    \/ newCompatibility \/ ip.changed]

\* settings that leave out everything, and settings that repeat the default
\* number of problems
NoSettings ==
    [maxNumberOfProblems |-> << >>, mode |-> << >>, path |-> << >>,
     stylisticWarnings |-> << >>]
SameSettings == [NoSettings EXCEPT !.maxNumberOfProblems = <<config.maxNumberOfProblems>>]

\* the values of AWKPATH: not set, ".", "l:."
AwkPaths == {<< >>, << <<".">> >>, << <<"l", ":", ".">> >>}

\* ------------------------------------------------- server: symbol callbacks

\* addSymbolUsage and addSymbolDefinition of server.ts construct the
\* definition with six arguments: (doc, position, type, docComment, symbol,
\* flag). The constructor has seven parameters, so the name arrives as scope,
\* the flag as symbol and isImplicitDefinition stays undefined, which is
\* FALSE where it is tested.
addSymbolUsage(d, id, type, symbol, position) ==
    LET d1 == IF type = "globalVariable" /\ ~isSymbolDefined(d, symbol, type)
              THEN docAddSymbolDefinition(d, symbol,
                       SymbolDefinition(id, position, type, "", symbol,
                                        booleanSymbol(TRUE), FALSE))
              ELSE d
    IN docAddSymbolUsage(d1, SymbolUsage(symbol, type, position))

addSymbolDefinition(d, id, type, symbol, position, docComment) ==
    addSymbolUsage(
        docAddSymbolDefinition(d, symbol,
            SymbolDefinition(id, position, type, docComment, symbol,
                             booleanSymbol(FALSE), FALSE)),
        id, getSymbolDefineType(type), symbol, position)

\* The callbacks the grammar calls have the signatures (type, scope, name,
\* line, position[, docComment]); the define callback returns the definition.
\* The server that installs callbacks of this shape constructs the definition
\* with its seven arguments.
addSymbolUsageInScope(d, id, type, scope, symbol, position) ==
    LET d1 == IF type = "globalVariable" /\ ~isSymbolDefined(d, symbol, type)
              THEN docAddSymbolDefinition(d, symbol,
                       SymbolDefinition(id, position, type, "", "", symbol, TRUE))
              ELSE d
    IN docAddSymbolUsage(d1, SymbolUsage(symbol, type, position))

addSymbolDefinitionInScope(d, id, type, scope, symbol, position, docComment) ==
    addSymbolUsageInScope(
        docAddSymbolDefinition(d, symbol,
            SymbolDefinition(id, position, type, docComment, scope, symbol, FALSE)),
        id, getSymbolDefineType(type), scope, symbol, position)

\* ------------------------------------------- parser module: the callbacks

\* the callback variables of the parser module as the module is loaded
NoCallbacks ==
    [defineFun |-> "undefined", usageFun |-> "undefined",
     registerNumberOfParameters |-> "undefined"]

\* what validateTextDocument sets: callbacks with the parameters (type,
\* symbol, line, position[, docComment]), the define callback returns nothing;
\* setRegisterNumberOfParameters is not called
ServerCallbacks ==
    [defineFun |-> "server", usageFun |-> "server",
     registerNumberOfParameters |-> "undefined"]

\* callbacks of the shape the grammar calls, and the document's
\* registerNumberOfParameters
GrammarCallbacks ==
    [defineFun |-> "grammar", usageFun |-> "grammar",
     registerNumberOfParameters |-> "document"]

\* what a callback of validateTextDocument takes for its symbol when the
\* grammar hands over a scope: undefined ("" as scope) or the definition
scopeAsSymbol(scope) == IF scope = "" THEN undefinedSymbol ELSE objectSymbol

\* usageFun(type, scope, symbol, line, position) of the grammar; position is
\* (line - 1, position - 1). The callback of validateTextDocument takes the
\* scope for the symbol, the symbol for the line and the line for the
\* position; a name of the model's texts minus 1 is NaN. A call of undefined
\* throws and does nothing.
usageFun(d, id, type, scope, symbol, position) ==
    CASE callbacks.usageFun = "grammar" ->
            addSymbolUsageInScope(d, id, type, scope, symbol, position)
      [] callbacks.usageFun = "server" ->
            addSymbolUsage(d, id, type, scopeAsSymbol(scope), Pos(NaN, position.line))
      [] OTHER -> d

\* defineFun(type, scope, symbol, line, position, docComment) of the grammar.
\* The callback of validateTextDocument takes the position for the
\* docComment: the number is written in decimal.
defineFun(d, id, type, scope, symbol, position, docComment) ==
    CASE callbacks.defineFun = "grammar" ->
            addSymbolDefinitionInScope(d, id, type, scope, symbol, position, docComment)
      [] callbacks.defineFun = "server" ->
            addSymbolDefinition(d, id, type, scopeAsSymbol(scope),
                                Pos(NaN, position.line),
                                ToString(position.character + 1))
      [] OTHER -> d

\* ---------------------------------------------------- grammar: declarations

\* The parser reports positions 1-based; the callbacks validateTextDocument
\* installs hand them on 0-based.
ParserPos(line, position) == Pos(line - 1, position - 1)

\* the name of the i-th formal parameter in the texts of the model
ParamName(i) == <<"p1", "p2", "p3", "p4">>[i]

\* globalFunctionName: the definition of fn that enterFunction stored last
globalFunctionName(d, fn) ==
    LET defs == getSymbolDefinitions(d, fn, "func") IN defs[Len(defs)]

\* globalFunctionName.parameters.push(paramDef): the object is the one stored
\* in definedSymbols
pushParameter(d, fn, paramDef) ==
    LET map == MapGet(d.definedSymbols, "func")
        defs == MapGet(map, fn)
        g == [defs[Len(defs)] EXCEPT !.parameters = Append(@, paramDef)]
    IN [d EXCEPT !.definedSymbols =
           MapSet(@, "func", MapSet(map, fn, [defs EXCEPT ![Len(defs)] = g]))]

\* globalFunctionName.localVariables.push(paramDef)
pushLocalVariable(d, fn, paramDef) ==
    LET map == MapGet(d.definedSymbols, "func")
        defs == MapGet(map, fn)
        g == [defs[Len(defs)] EXCEPT !.localVariables = Append(@, paramDef)]
    IN [d EXCEPT !.definedSymbols =
           MapSet(@, "func", MapSet(map, fn, [defs EXCEPT ![Len(defs)] = g]))]

\* `function f(p1, p2) {` on one line: the name token f( is at position 10,
\* the list begins behind it, at position 11 + Len(fn); the first identifier
\* of the list follows the text ignored there, each further one a comma and
\* the text ignored behind the comma
\* docComment is the pending doc-comment, "" for undefined
enterFunction(d, id, fn, line, docComment) ==
    defineFun(d, id, "func", "", fn, ParserPos(line, 10), docComment)

\* enterFunction throws unless the define callback returns the definition:
\* the call of undefined throws, and so does the assignment to the field
\* parameters of the undefined a callback without result returns
enterFunctionThrows == callbacks.defineFun # "grammar"

\* addParameter inside the function fn; docComment is the variable of that
\* name. What the define callback returned is pushed: a callback without
\* result has undefined pushed onto the list of the definition, if fn has one.
\* d is the document when the define callback has returned
pushParamDef(d, fn, parameter, isParameter) ==
    LET defs == getSymbolDefinitions(
                   d, parameter, IF isParameter THEN "parameter" ELSE "localVariable")
        paramDef == IF callbacks.defineFun = "grammar" THEN defs[Len(defs)]
                    ELSE undefined
    IN IF callbacks.defineFun = "undefined" \/ ~isSymbolDefined(d, fn, "func") THEN d
       ELSE IF isParameter THEN pushParameter(d, fn, paramDef)
       ELSE pushLocalVariable(d, fn, paramDef)

addParameter(d, id, fn, parameter, isParameter, line, position, docComment) ==
    pushParamDef(defineFun(d, id, IF isParameter THEN "parameter" ELSE "localVariable",
                           fn, parameter, ParserPos(line, position), docComment),
                 fn, parameter, isParameter)

\* ignores[i] is ignoreBuffer when identifier i is the next token: the ignored
\* characters in front of it, a Seq of one-character strings; position is
\* where that ignored text begins. enterFunction has run: docComment is
\* undefined.
RECURSIVE formal_parameters(_, _, _, _, _, _, _, _)
formal_parameters(d, id, fn, line, ignores, paramNr, isParameter, position) ==
    IF paramNr >= Len(ignores) THEN d
    ELSE LET ignoreBuffer == ignores[paramNr + 1]
             isParameter1 ==
                IF \/ /\ paramNr > 0
                      /\ \/ Len(ignoreBuffer) > 1
                         \/ Len(ignoreBuffer) = 1 /\ ignoreBuffer[1] # " "
                   \/ paramNr = 0 /\ Len(ignoreBuffer) # 0
                THEN FALSE ELSE isParameter
             start == position + Len(ignoreBuffer)
         IN formal_parameters(
              addParameter(d, id, fn, ParamName(paramNr + 1), isParameter1, line, start,
                           ""),
              id, fn, line, ignores, paramNr + 1, isParameter1,
              start + Len(ParamName(paramNr + 1)) + 1)

\* enterFunctionBlock throws when no registerNumberOfParameters was set,
\* before it has done anything
enterFunctionBlockThrows == callbacks.registerNumberOfParameters = "undefined"

enterFunctionBlock(d, fn) ==
    IF enterFunctionBlockThrows THEN d
    ELSE registerNumberOfParameters(d, globalFunctionName(d, fn))

\* llerror(msg) at the name token `f(` of a declaration
llerror(d, fn, line, msg) ==
    messageFun(d, "error", "syntax", msg, ParserPos(line, 10), Len(fn) + 1)

\* builtInSymbols[fn].awk as a condition: the awk flag of an inherited
\* property is undefined
builtInAwk(fn) == MapHas(builtInSymbols, fn) /\ MapGet(builtInSymbols, fn).awk

\* The rule of a function declaration up to the block; ignores as for
\* formal_parameters. A name found in builtInSymbols, own or inherited, is
\* reported if the setting or its awk flag says so. The result is the
\* document when the rule is through or has thrown.
\* d is the document when enterFunction is through or has thrown.
declarationBehindName(d, id, fn, ignores, line) ==
    IF enterFunctionThrows THEN d
    ELSE enterFunctionBlock(
            formal_parameters(
               IF /\ ObjHas(builtInSymbols, fn)
                  /\ (stylisticWarnings.gawkCompatibility \/ builtInAwk(fn))
               THEN llerror(d, fn, line, "redefining built-in function")
               ELSE d,
               id, fn, line, ignores, 0, TRUE, 11 + Len(fn)),
            fn)

function_declaration(d, id, fn, ignores, line, docComment) ==
    declarationBehindName(enterFunction(d, id, fn, line, docComment),
                          id, fn, ignores, line)

\* statement_sep, the alternative of a line end without semicolon: the nl
\* token, which is the last symbol when the action runs, is at (line,
\* position) and has the given length
statement_sep(d, line, position, length) ==
    IF stylisticWarnings.gawkCompatibility
    THEN messageFun(d, "error", "mode", "missing semicolon",
                    ParserPos(line, position + length), 1)
    ELSE IF stylisticWarnings.missingSemicolon
    THEN messageFun(d, "warning", "user setting", "missing semicolon",
                    ParserPos(line, position + length), 1)
    ELSE d

\* the spacing of a list of n parameters written `p1, p2`: nothing in front of
\* the first, one blank behind each comma
SingleBlanks(n) == [i \in 1..n |-> IF i = 1 THEN << >> ELSE <<" ">>]

\* ----------------------------------------------------------- grammar: calls

\* A call is [kind |-> "call", name, args]; an argument is a call or the
\* number 1. The statement is written without blanks: f(1,g(),1)
Number == [kind |-> "number", name |-> "1", args |-> << >>]

\* The parser while it reads a line: the document it reports to, the line, the
\* position of the next token, and position and length of the last token
ParserAt(d, id, line) ==
    [doc |-> d, id |-> id, line |-> line, next |-> 1, lastPos |-> 1, lastLen |-> 0]

\* accept a token of the given length
token(P, length) ==
    [P EXCEPT !.lastPos = P.next, !.lastLen = length, !.next = P.next + length]

\* llLinePosition when the action after an argument runs: the scanner has read
\* the look-ahead token (the comma or the parenthesis)
llLinePosition(P) == P.next + 1

RECURSIVE function_call(_, _)
RECURSIVE actual_parameters(_, _, _)

\* single_term: function_call_identifier, actual_parameters
function_call(P, call) ==
    LET P1 == token(P, Len(call.name) + 1)
        d1 == usageFun(P1.doc, P1.id, "func", "", call.name,
                       ParserPos(P1.line, P1.lastPos))
        d2 == registerFunctionCall(d1, TRUE,
                                   ParserPos(P1.line, P1.lastPos + P1.lastLen))
        P2 == actual_parameters([P1 EXCEPT !.doc = d2], call.args, 0)
    IN [P2 EXCEPT !.doc = registerFunctionCall(P2.doc, FALSE,
                                               ParserPos(P2.line, P2.lastPos))]

\* actual_parameters(true), from argument number `parameters` (0-based) on, up
\* to and including the right parenthesis
actual_parameters(P, args, parameters) ==
    IF Len(args) = 0
    THEN token([P EXCEPT !.doc = registerFunctionCallParameter(
                                    P.doc, -1, TRUE, P.line - 1,
                                    P.lastPos + P.lastLen - 1)], 1)
    ELSE LET arg == args[parameters + 1]
             P1 == [P EXCEPT !.doc = registerFunctionCallParameter(
                                        P.doc, parameters, TRUE, P.line - 1,
                                        P.lastPos + P.lastLen - 1)]
             P2 == IF arg.kind = "number" THEN token(P1, 1) ELSE function_call(P1, arg)
             P3 == token([P2 EXCEPT !.doc = registerFunctionCallParameter(
                                               P2.doc, parameters, FALSE, P2.line - 1,
                                               llLinePosition(P2) - 1)], 1)
         IN IF parameters + 1 < Len(args)
            THEN actual_parameters(P3, args, parameters + 1)
            ELSE P3

\* ------------------------------------------------------ bounds in guards

RECURSIVE SumIncl(_)
SumIncl(q) == IF q = << >> THEN 0 ELSE Len(Head(q).text.incl) + SumIncl(Tail(q))

\* every directive of a queued text may construct one document
Room(extra) == NrObjects(docs) + SumIncl(processingQueue) + extra <= MaxDocs

\* ----------------------------------------------------------------- actions

Init ==
    /\ docs = << >>
    /\ documentMap = << >>
    /\ processingQueue = << >>
    /\ nrOpenReadRequests = 0
    /\ pendingReads = {}
    /\ parseLevel = 0
    /\ openDocs = << >>
    /\ pc = "idle"
    /\ cur = "none"
    /\ todo = << >>
    /\ swept = FALSE
    /\ callTexts = << >>
    /\ config = DefaultConfig
    /\ stylisticWarnings = DefaultStylisticWarnings
    /\ includePath = DefaultIncludePath
    /\ awkPath = << >>
    /\ callbackDoc = 0
    /\ callbacks = NoCallbacks

IsOpen(u) == \E i \in 1..Len(openDocs) : openDocs[i].uri = u

\* documents.onDidChangeContent: the document was opened or edited
ChangeContent(u, t) ==
    /\ pc = "idle"
    /\ Len(processingQueue) < MaxQueue
    /\ Room((IF MapHas(documentMap, u) THEN 0 ELSE 1) + Len(t.incl))
    /\ LET known == MapHas(documentMap, u)
           newId == alloc(docs)
           inclDeclInfo == IncludeDeclarationInfo(newId, [start |-> Pos(0, 0),
                                                          end |-> Pos(1, 0)])
           h == IF known THEN docs
                ELSE construct(docs, newId,
                               addIncludedBy(NewDocument(u), editorDocument, inclDeclInfo))
           m == IF known THEN documentMap ELSE MapSet(documentMap, u, newId)
       IN /\ docs' = h
          /\ documentMap' = m
          /\ processingQueue' = Append(processingQueue, [doc |-> MapGet(m, u), text |-> t])
    /\ openDocs' = IF IsOpen(u)
                   THEN [i \in 1..Len(openDocs) |->
                           IF openDocs[i].uri = u THEN [uri |-> u, text |-> t]
                           ELSE openDocs[i]]
                   ELSE Append(openDocs, [uri |-> u, text |-> t])
    /\ pc' = "drain"
    /\ swept' = FALSE
    /\ UNCHANGED <<config, stylisticWarnings, callbacks, includePath, awkPath, callbackDoc>>
    /\ UNCHANGED <<nrOpenReadRequests, pendingReads, parseLevel, cur, todo, callTexts>>

\* processNextQueueItem, loop body up to the entry of validateText:
\* shift the item; validateTextDocument sets the callbacks; parseLevel++,
\* doc.clear()
DequeueItem ==
    /\ pc = "drain"
    /\ loopCondition
    /\ cur' = Head(processingQueue)
    /\ processingQueue' = Tail(processingQueue)
    /\ callbacks' = ServerCallbacks
    /\ callbackDoc' = Head(processingQueue).doc
    /\ parseLevel' = parseLevel + 1
    /\ docs' = clear(docs, Head(processingQueue).doc)
    /\ pc' = "parsing"
    /\ swept' = FALSE
    /\ UNCHANGED <<config, stylisticWarnings, includePath, awkPath>>
    /\ UNCHANGED <<documentMap, nrOpenReadRequests, pendingReads, openDocs, todo, callTexts>>

\* validateText from parse(text) to its return
ParseText ==
    /\ pc = "parsing"
    /\ LET S == parseAndCatch([docs |-> docs, documentMap |-> documentMap,
                               nrOpenReadRequests |-> nrOpenReadRequests,
                               pendingReads |-> pendingReads], cur.doc, cur.text)
       IN /\ docs' = [S.docs EXCEPT ![cur.doc].positionTree = finishPositionTree(@)]
          /\ documentMap' = S.documentMap
          /\ nrOpenReadRequests' = S.nrOpenReadRequests
          /\ pendingReads' = S.pendingReads
    /\ parseLevel' = parseLevelAtReturn(parseLevel, cur.text.crash)
    /\ cur' = "none"
    /\ pc' = "drain"
    /\ swept' = FALSE
    /\ UNCHANGED <<config, stylisticWarnings, callbacks, includePath, awkPath, callbackDoc>>
    /\ UNCHANGED <<processingQueue, openDocs, todo, callTexts>>

\* processNextQueueItem after the loop: finish up unless a read is outstanding
FinishDrain ==
    /\ pc = "drain"
    /\ ~loopCondition
    /\ IF nrOpenReadRequests = 0 /\ processingAllowed
       THEN LET F == finishUpProcessing([docs |-> docs, documentMap |-> documentMap])
            IN docs' = F.docs /\ documentMap' = F.documentMap /\ swept' = TRUE
       ELSE UNCHANGED <<docs, documentMap, swept>>
    /\ pc' = IF todo = << >> THEN "idle" ELSE "config"
    /\ UNCHANGED <<config, stylisticWarnings, callbacks, includePath, awkPath, callbackDoc>>
    /\ UNCHANGED <<processingQueue, nrOpenReadRequests, pendingReads, parseLevel,
                   openDocs, cur, todo, callTexts>>

\* a callback of readFile that ignores a failed read
ReadCompleteErrorSilent(r, err, data) ==
    /\ pc = "idle"
    /\ r \in pendingReads
    /\ nrOpenReadRequests' = nrOpenReadRequests - 1
    /\ pendingReads' = pendingReads \ {r}
    /\ IF ~err
       THEN /\ Len(processingQueue) < MaxQueue
            /\ Room(Len(data.incl))
            /\ processingQueue' = Append(processingQueue, [doc |-> r.doc, text |-> data])
            /\ pc' = "drain"
            /\ swept' = FALSE
       ELSE UNCHANGED <<processingQueue, pc, swept>>
    /\ UNCHANGED <<config, stylisticWarnings, callbacks, includePath, awkPath, callbackDoc>>
    /\ UNCHANGED <<docs, documentMap, parseLevel, openDocs, cur, todo, callTexts>>

\* the callback of readFile: the read ended with data or with an error
ReadComplete(r, err, data) ==
    /\ pc = "idle"
    /\ r \in pendingReads
    /\ nrOpenReadRequests' = nrOpenReadRequests - 1
    /\ pendingReads' = pendingReads \ {r}
    /\ IF ~err
       THEN /\ Len(processingQueue) < MaxQueue
            /\ Room(Len(data.incl))
            /\ processingQueue' = Append(processingQueue, [doc |-> r.doc, text |-> data])
       ELSE UNCHANGED processingQueue
    /\ pc' = "drain"
    /\ swept' = FALSE
    /\ UNCHANGED <<config, stylisticWarnings, callbacks, includePath, awkPath, callbackDoc>>
    /\ UNCHANGED <<docs, documentMap, parseLevel, openDocs, cur, todo, callTexts>>

\* closeDocURI: the editor closed the document
CloseDoc(u) ==
    /\ pc = "idle"
    /\ IsOpen(u)
    /\ openDocs' = SelectSeq(openDocs, LAMBDA e : e.uri # u)
    /\ IF MapHas(documentMap, u)
       THEN LET doc == MapGet(documentMap, u)
                F == finishUpProcessing(
                       [docs |-> [docs EXCEPT ![doc] = removeIncludedBy(@, editorDocument)],
                        documentMap |-> documentMap])
            IN docs' = F.docs /\ documentMap' = F.documentMap /\ swept' = TRUE
       ELSE UNCHANGED <<docs, documentMap, swept>>
    /\ UNCHANGED <<config, stylisticWarnings, callbacks, includePath, awkPath, callbackDoc>>
    /\ UNCHANGED <<processingQueue, nrOpenReadRequests, pendingReads, parseLevel,
                   pc, cur, todo, callTexts>>

\* connection.onDidChangeConfiguration: the settings are taken over; if they
\* force a re-parse every open document is enqueued in turn
ConfigChange(settings) ==
    /\ pc = "idle"
    /\ openDocs # << >>
    /\ Len(processingQueue) + Len(openDocs) <= MaxQueue
    /\ Room(SumIncl(openDocs))
    /\ LET r == updateConfiguration(settings)
       IN /\ config' = r.config
          /\ stylisticWarnings' = r.stylisticWarnings
          /\ includePath' = r.includePath
          /\ IF r.reparse
             THEN todo' = openDocs /\ pc' = "config"
             ELSE UNCHANGED <<todo, pc>>
    /\ UNCHANGED <<docs, documentMap, processingQueue, nrOpenReadRequests, pendingReads,
                   parseLevel, openDocs, cur, swept, callTexts, callbacks, awkPath,
                   callbackDoc>>

\* one turn of the forEach of onDidChangeConfiguration
ConfigNext ==
    /\ pc = "config"
    /\ IF todo = << >>
       THEN pc' = "idle" /\ UNCHANGED <<processingQueue, todo, swept>>
       ELSE /\ todo' = Tail(todo)
            /\ IF MapHas(documentMap, Head(todo).uri)
               THEN /\ processingQueue' =
                          Append(processingQueue,
                                 [doc |-> MapGet(documentMap, Head(todo).uri),
                                  text |-> Head(todo).text])
                    /\ pc' = "drain"
                    /\ swept' = FALSE
               ELSE UNCHANGED <<processingQueue, pc, swept>>
    /\ UNCHANGED <<config, stylisticWarnings, callbacks, includePath, awkPath, callbackDoc>>
    /\ UNCHANGED <<docs, documentMap, nrOpenReadRequests, pendingReads, parseLevel,
                   openDocs, cur, callTexts>>

Next ==
    \/ \E u \in Uris, t \in Texts : ChangeContent(u, t)
    \/ DequeueItem
    \/ ParseText
    \/ FinishDrain
    \/ \E r \in pendingReads, err \in BOOLEAN, data \in Texts : ReadComplete(r, err, data)
    \/ \E u \in Uris : CloseDoc(u)
    \/ \E settings \in {NoSettings, SameSettings} : ConfigChange(settings)
    \/ ConfigNext

Spec == Init /\ [][Next]_vars

\* The specification for what the server eventually does takes the same
\* steps on fewer inputs: the editor opens a.awk, the texts name a.awk and
\* b.awk, and a text at which the parser throws has the directive for b.awk
\* in front. An object nothing refers to any more is reclaimed by the runtime
\* and its heap position is used again, so the editor can go on for ever:
\* the objects that exist at one time are bounded, those constructed in a run
\* are not.
LiveUris == {"a.awk"}
LiveFiles == {"a.awk", "b.awk"}
LiveTexts ==
    {t \in Texts : /\ \A i \in 1..Len(t.incl) : t.incl[i] \in LiveFiles
                   /\ t.crash => t.incl = <<"b.awk">>}

\* the objects the server holds on to: the registered ones, those of the
\* queue items and of the callbacks of the outstanding reads, and the one
\* validated last, which the callbacks of the parser module close over until
\* validateTextDocument sets the next ones
Roots ==
    MapValues(documentMap)
    \cup {processingQueue[i].doc : i \in 1..Len(processingQueue)}
    \cup {r.doc : r \in pendingReads}
    \cup ({callbackDoc} \cap DOMAIN docs)

\* the objects reached from those of S over the keys of includes and includedBy
RECURSIVE Referenced(_)
Referenced(S) ==
    LET T == S \cup UNION {(EMapKeys(docs[d].includes) \cup EMapKeys(docs[d].includedBy))
                              \ {editorDocument} : d \in S}
    IN IF T = S THEN S ELSE Referenced(T)

\* garbage collection between two handlers: every object that is not
\* referenced leaves the heap
Reclaim ==
    /\ pc = "idle"
    /\ \E i \in DOMAIN docs : i \notin Referenced(Roots) /\ docs[i] # FreeSlot
    /\ docs' = [i \in DOMAIN docs |-> IF i \in Referenced(Roots) THEN docs[i] ELSE FreeSlot]
    /\ UNCHANGED <<config, stylisticWarnings, callbacks, includePath, awkPath, callbackDoc>>
    /\ UNCHANGED <<documentMap, processingQueue, nrOpenReadRequests, pendingReads,
                   parseLevel, openDocs, pc, cur, todo, swept, callTexts>>

\* an event of the editor
EditorStep ==
    \/ \E u \in LiveUris, t \in LiveTexts : ChangeContent(u, t)
    \/ \E u \in LiveUris : CloseDoc(u)
    \/ \E settings \in {NoSettings, SameSettings} : ConfigChange(settings)

NextLive ==
    \/ \E u \in LiveUris, t \in LiveTexts : ChangeContent(u, t)
    \/ DequeueItem
    \/ ParseText
    \/ FinishDrain
    \/ \E r \in pendingReads, err \in BOOLEAN, data \in LiveTexts : ReadComplete(r, err, data)
    \/ \E u \in LiveUris : CloseDoc(u)
    \/ \E settings \in {NoSettings, SameSettings} : ConfigChange(settings)
    \/ ConfigNext
    \/ Reclaim

\* The handlers run to completion: a handler that has begun takes its next
\* step (the event loop runs nothing else in between). Every read that was
\* issued completes; its callback waits for the handler that is running, so
\* the fairness for it is strong. The editor's events and the collection of
\* garbage have no fairness.
SpecLive ==
    /\ Init
    /\ [][NextLive]_vars
    /\ WF_vars(DequeueItem)
    /\ WF_vars(ParseText)
    /\ WF_vars(FinishDrain)
    /\ WF_vars(ConfigNext)
    /\ \A d \in 1..MaxDocs, f \in LiveFiles :
          SF_vars(\E err \in BOOLEAN, data \in LiveTexts :
                     ReadComplete([doc |-> d, file |-> f], err, data))

\* ------------------------------------------- the function checker at work

\* The second specification runs updateInclude, the parser callbacks and
\* checkFunctionCalls on three documents. Its steps are the call of
\* updateInclude for two of the documents, a function declaration, a call
\* statement and the analysis of one document. updateInclude is called as
\* addInclude calls it, for an including document and one constructed after
\* it, so the include graphs have no cycle. A text has its function
\* declarations first, then its statements; the call statements are those of
\* the first document. What the parses of different documents report is
\* independent, so the steps are taken in one order: the edges, then the
\* declarations document by document, then the statements.

\* __proto__ is an identifier of awk like f and g
FunNames == {"f", "g", "__proto__"}
CallNames == {"f", "g", "sin", "__proto__"}
InnerNames == {"g"}

\* a call written as an argument has one argument less than the longest call
InnerCalls ==
    {[kind |-> "call", name |-> n, args |-> a] :
        n \in InnerNames, a \in SeqsUpTo({Number}, MaxArgs - 1)}

CallTrees ==
    {[kind |-> "call", name |-> n, args |-> a] :
        n \in CallNames, a \in SeqsUpTo({Number} \cup InnerCalls, MaxArgs)}

\* every statement is on a line of its own
nextLine(d) == Len(d.usedSymbols) + Len(d.includes) + 1

RECURSIVE SumOver(_, _)
SumOver(f, S) ==
    IF S = {} THEN 0
    ELSE LET x == CHOOSE y \in S : TRUE IN f[x] + SumOver(f, S \ {x})

NrEdges == SumOver([d \in DOMAIN docs |-> Len(docs[d].includes)], DOMAIN docs)

NrDecls ==
    SumOver([d \in DOMAIN docs |->
               SumOver([fn \in FunNames |->
                          Len(getSymbolDefinitions(docs[d], fn, "func"))], FunNames)],
            DOMAIN docs)

InitCalls ==
    /\ docs = <<NewDocument("a.awk"), NewDocument("b.awk"), NewDocument("c.awk")>>
    /\ documentMap = <<[key |-> "a.awk", value |-> 1], [key |-> "b.awk", value |-> 2],
                       [key |-> "c.awk", value |-> 3]>>
    /\ processingQueue = << >>
    /\ nrOpenReadRequests = 0
    /\ pendingReads = {}
    /\ parseLevel = 0
    /\ openDocs = << >>
    /\ pc = "build"
    /\ cur = "none"
    /\ todo = << >>
    /\ swept = FALSE
    /\ callTexts = << >>
    /\ config = DefaultConfig
    /\ stylisticWarnings = DefaultStylisticWarnings
    /\ includePath = DefaultIncludePath
    /\ awkPath = << >>
    /\ callbackDoc = 0
    /\ callbacks = GrammarCallbacks

\* the edges updateInclude can be called for, and those from a document to
\* one constructed after it
IncludePairs == {e \in (1..MaxDocs) \X (1..MaxDocs) : e[1] # e[2]}
ForwardPairs == {e \in IncludePairs : e[1] < e[2]}

\* updateInclude(a, b, range)
UpdateInclude(a, b) ==
    /\ pc = "build"
    /\ ~EMapHas(docs[a].includes, b)
    /\ NrEdges < MaxEdges
    /\ NrDecls = 0
    /\ callTexts = << >>
    /\ docs' = updateInclude(docs, a, b,
                             getRange(ParserPos(nextLine(docs[a]), 10), 7))
    /\ UNCHANGED <<config, stylisticWarnings, callbacks, includePath, awkPath, callbackDoc>>
    /\ UNCHANGED <<documentMap, processingQueue, nrOpenReadRequests, pendingReads,
                   parseLevel, openDocs, pc, cur, todo, swept, callTexts>>

\* a function declaration with n formal parameters in document d
DeclareFunction(d, fn, n) ==
    /\ pc = "build"
    /\ NrDecls < MaxDecls
    /\ callTexts = << >>
    /\ \A e \in DOMAIN docs : e > d => docs[e].numberOfParameters = << >>
    /\ docs' = [docs EXCEPT ![d] = function_declaration(@, d, fn, SingleBlanks(n), nextLine(@), "")]
    /\ UNCHANGED <<config, stylisticWarnings, callbacks, includePath, awkPath, callbackDoc>>
    /\ UNCHANGED <<documentMap, processingQueue, nrOpenReadRequests, pendingReads,
                   parseLevel, openDocs, pc, cur, todo, swept, callTexts>>

\* a call statement in document d
ParseCall(d, call) ==
    /\ pc = "build"
    /\ Len(callTexts) < MaxStmts
    /\ NrDecls + Len(callTexts) < MaxLines
    /\ docs' = [docs EXCEPT ![d] = function_call(ParserAt(@, d, nextLine(@)), call).doc]
    /\ callTexts' = Append(callTexts,
                           [doc |-> d, line |-> nextLine(docs[d]), call |-> call])
    /\ UNCHANGED <<config, stylisticWarnings, callbacks, includePath, awkPath, callbackDoc>>
    /\ UNCHANGED <<documentMap, processingQueue, nrOpenReadRequests, pendingReads,
                   parseLevel, openDocs, pc, cur, todo, swept>>

\* doc.checkFunctionCalls()
CheckFunctionCalls(d) ==
    /\ pc = "build"
    /\ docs' = [docs EXCEPT ![d] = checkFunctionCalls(docs, d)]
    /\ cur' = [doc |-> d]
    /\ pc' = "checked"
    /\ UNCHANGED <<config, stylisticWarnings, callbacks, includePath, awkPath, callbackDoc>>
    /\ UNCHANGED <<documentMap, processingQueue, nrOpenReadRequests, pendingReads,
                   parseLevel, openDocs, todo, swept, callTexts>>

NextCalls ==
    \/ \E e \in ForwardPairs : UpdateInclude(e[1], e[2])
    \/ \E d \in DOMAIN docs, fn \in FunNames, n \in 0..MaxParams : DeclareFunction(d, fn, n)
    \/ \E call \in CallTrees : ParseCall(1, call)
    \/ \E d \in DOMAIN docs : CheckFunctionCalls(d)

SpecCalls == InitCalls /\ [][NextCalls]_vars

\* ---------------------------------------------- the closure on any graph
\* The third specification applies checkFunctionCalls to the include graphs
\* updateInclude can record between three documents, the cyclic ones
\* included: the include tables of AWKDocument hold whatever edges are handed
\* to them. Its steps are the call of updateInclude for two of the documents,
\* a function declaration and the analysis of one document.

InitClosure == InitCalls

\* the call statements of the third specification: calls without argument
ClosureCalls == {call \in CallTrees : call.args = << >>}

NextClosure ==
    \/ \E e \in IncludePairs : UpdateInclude(e[1], e[2])
    \/ \E d \in DOMAIN docs, fn \in FunNames, n \in 0..MaxParams : DeclareFunction(d, fn, n)
    \/ \E call \in ClosureCalls : ParseCall(1, call)
    \/ \E d \in DOMAIN docs : CheckFunctionCalls(d)

SpecClosure == InitClosure /\ [][NextClosure]_vars

\* ------------------------------------------------- the life of a document
\* One document, a.awk, is parsed again and again; b.awk is a document
\* updateInclude can be called for during a parse. Between two parses the function table can be compared with the
\* snapshot, the calls can be analysed and the diagnostics can be published.
\* cur is a record of what happened last:
\*   op        the operation of the last step
\*   parses    the parses begun so far
\*   events    the parser callbacks so far, one statement and one line each
\*   prevMap   numberOfParameters as the parse before the last clear() left it
\*   fresh     functionInformationHasChanged ran between that parse and the clear()
\*   checked   functionInformationHasChanged ran since the last clear()
\*   changed   what it returned last
\*   max, sent, diagnostics   the last call of docSendDiagnostics, if it was the
\*             last step
\*   touched   since the last publish a diagnostic was stored, the parse
\*             diagnostics were reset, or analysis diagnostics were removed

\* the functions the texts of the document declare: toString is an own key
\* of the function table when it is declared and an inherited name when not
DocFunNames == {"f", "toString", "__proto__"}

\* the kinds of message: one that is always stored and the two that a
\* setting can switch off
MessageSubTypes == {"syntax", "comma", "future"}

InitDoc ==
    /\ docs = <<NewDocument("a.awk"), NewDocument("b.awk")>>
    /\ documentMap = <<[key |-> "a.awk", value |-> 1], [key |-> "b.awk", value |-> 2]>>
    /\ processingQueue = << >>
    /\ nrOpenReadRequests = 0
    /\ pendingReads = {}
    /\ parseLevel = 0
    /\ openDocs = << >>
    /\ pc = "parsed"
    /\ cur = [op |-> "new", parses |-> 0, events |-> 0, prevMap |-> << >>, fresh |-> FALSE,
              checked |-> FALSE, changed |-> FALSE, max |-> 0, sent |-> FALSE,
              diagnostics |-> << >>, touched |-> FALSE]
    /\ todo = << >>
    /\ swept = FALSE
    /\ callTexts = << >>
    /\ config = DefaultConfig
    /\ stylisticWarnings = DefaultStylisticWarnings
    /\ includePath = DefaultIncludePath
    /\ awkPath = << >>
    /\ callbackDoc = 0
    /\ callbacks = GrammarCallbacks

\* validateText up to the call of the parser: parseLevel++, doc.clear()
StartParse ==
    /\ pc = "parsed"
    /\ cur.parses < MaxParses
    /\ parseLevel' = parseLevel + 1
    /\ docs' = clear(docs, 1)
    /\ cur' = [cur EXCEPT !.op = "clear", !.parses = @ + 1,
                          !.prevMap = docs[1].numberOfParameters,
                          !.fresh = cur.checked, !.checked = FALSE,
                          !.max = 0, !.sent = FALSE, !.diagnostics = << >>,
                          !.touched = TRUE]
    /\ pc' = "parse"
    /\ UNCHANGED <<config, stylisticWarnings, callbacks, includePath, awkPath, callbackDoc>>
    /\ UNCHANGED <<documentMap, processingQueue, nrOpenReadRequests, pendingReads,
                   openDocs, todo, swept, callTexts>>

\* one callback of the running parse; the statement is on line cur.events + 1
ParseEvent(h) ==
    /\ pc = "parse"
    /\ cur.events < MaxEvents
    /\ docs' = h
    /\ cur' = [cur EXCEPT !.op = "event", !.events = @ + 1,
                          !.touched = \/ @
                                      \/ h[1].parseDiagnostics # docs[1].parseDiagnostics
                                      \/ h[1].analysisDiagnostics
                                            # docs[1].analysisDiagnostics]
    /\ UNCHANGED <<config, stylisticWarnings, callbacks, includePath, awkPath, callbackDoc>>
    /\ UNCHANGED <<documentMap, processingQueue, nrOpenReadRequests, pendingReads,
                   parseLevel, openDocs, pc, todo, swept, callTexts>>

\* updateInclude(a.awk, b.awk, range), called during the parse
DocUpdateInclude ==
    /\ ~EMapHas(docs[1].includes, 2)
    /\ ParseEvent(updateInclude(docs, 1, 2,
                                getRange(ParserPos(cur.events + 1, 10), 7)))

DocDeclare(fn, n) ==
    ParseEvent([docs EXCEPT ![1] =
                  function_declaration(@, 1, fn, SingleBlanks(n), cur.events + 1, "")])

DocCall(call) ==
    ParseEvent([docs EXCEPT ![1] =
                  function_call(ParserAt(@, 1, cur.events + 1), call).doc])

\* a message of the parser: llerror, llwarn with the kind of the warning
DocMessage(type, subType) ==
    ParseEvent([docs EXCEPT ![1] =
                  messageFun(@, type, subType, "syntax error",
                             ParserPos(cur.events + 1, 1), 1)])

DocBeginPath ==
    ParseEvent([docs EXCEPT ![1] =
                  beginPathFun(@, <<"x">>, ParserPos(cur.events + 1, 1))])

DocEndPath ==
    ParseEvent([docs EXCEPT ![1] =
                  endPathFun(@, <<"x">>, ParserPos(cur.events + 1, 1))])

DocBeginEmbedding ==
    ParseEvent([docs EXCEPT ![1] =
                  beginEmbeddingFun(@, <<"x">>, ParserPos(cur.events + 1, 1))])

DocEndEmbedding ==
    ParseEvent([docs EXCEPT ![1] =
                  endEmbeddingFun(@, <<"x">>, ParserPos(cur.events + 1, 1))])

\* the parser returns: finishPositionTree(doc.positionTree), parseLevel--
EndParse ==
    /\ pc = "parse"
    /\ pc' = "parsed"
    /\ docs' = [docs EXCEPT ![1].positionTree = finishPositionTree(@)]
    /\ parseLevel' = parseLevelAtReturn(parseLevel, FALSE)
    /\ cur' = [cur EXCEPT !.op = "end"]
    /\ UNCHANGED <<config, stylisticWarnings, callbacks, includePath, awkPath, callbackDoc>>
    /\ UNCHANGED <<documentMap, processingQueue, nrOpenReadRequests, pendingReads,
                   openDocs, todo, swept, callTexts>>

FunctionInformationHasChanged ==
    /\ pc = "parsed"
    /\ LET r == functionInformationHasChanged(docs[1])
       IN /\ docs' = [docs EXCEPT ![1] = r.doc]
          /\ cur' = [cur EXCEPT !.op = "compare", !.checked = TRUE, !.changed = r.change,
                                !.max = 0, !.sent = FALSE, !.diagnostics = << >>]
    /\ UNCHANGED <<config, stylisticWarnings, callbacks, includePath, awkPath, callbackDoc>>
    /\ UNCHANGED <<documentMap, processingQueue, nrOpenReadRequests, pendingReads,
                   parseLevel, openDocs, pc, todo, swept, callTexts>>

DocCheckFunctionCalls ==
    /\ pc = "parsed"
    /\ docs' = [docs EXCEPT ![1] = checkFunctionCalls(docs, 1)]
    /\ cur' = [cur EXCEPT !.op = "check",
                          !.max = 0, !.sent = FALSE, !.diagnostics = << >>,
                          !.touched = \/ @
                                      \/ docs[1].analysisDiagnostics # << >>
                                      \/ docs'[1].analysisDiagnostics # << >>]
    /\ UNCHANGED <<config, stylisticWarnings, callbacks, includePath, awkPath, callbackDoc>>
    /\ UNCHANGED <<documentMap, processingQueue, nrOpenReadRequests, pendingReads,
                   parseLevel, openDocs, pc, todo, swept, callTexts>>

\* doc.sendDiagnostics(connection, maxNumberOfProblems)
DocSendDiagnostics(maxNumberOfProblems) ==
    /\ pc = "parsed"
    /\ \E r \in docSendDiagnostics(docs[1], maxNumberOfProblems) :
          /\ docs' = [docs EXCEPT ![1] = r.doc]
          /\ cur' = [cur EXCEPT !.op = "send", !.max = maxNumberOfProblems,
                                !.sent = r.sent,
                                !.diagnostics = r.diagnostics,
                                !.touched = IF r.sent THEN FALSE ELSE @]
    /\ UNCHANGED <<config, stylisticWarnings, callbacks, includePath, awkPath, callbackDoc>>
    /\ UNCHANGED <<documentMap, processingQueue, nrOpenReadRequests, pendingReads,
                   parseLevel, openDocs, pc, todo, swept, callTexts>>

NextDoc ==
    \/ StartParse
    \/ DocUpdateInclude
    \/ \E fn \in DocFunNames, n \in 0..MaxParams : DocDeclare(fn, n)
    \/ \E call \in InnerCalls : DocCall(call)
    \/ \E type \in {"error", "warning"}, subType \in MessageSubTypes :
          DocMessage(type, subType)
    \/ DocBeginPath
    \/ DocEndPath
    \/ DocBeginEmbedding
    \/ DocEndEmbedding
    \/ EndParse
    \/ FunctionInformationHasChanged
    \/ DocCheckFunctionCalls
    \/ \E maxNumberOfProblems \in 1..MaxProblems : DocSendDiagnostics(maxNumberOfProblems)

SpecDoc == InitDoc /\ [][NextDoc]_vars

\* ------------------------------------------- spacing of a declaration list

\* the ignored text in front of an identifier: blanks and tabs
IgnoreBuffers == SeqsUpTo({" ", "\t"}, MaxBlanks)

InitDecl ==
    /\ docs = <<NewDocument("a.awk")>>
    /\ documentMap = <<[key |-> "a.awk", value |-> 1]>>
    /\ processingQueue = << >>
    /\ nrOpenReadRequests = 0
    /\ pendingReads = {}
    /\ parseLevel = 0
    /\ openDocs = << >>
    /\ pc = "declare"
    /\ cur = "none"
    /\ todo = << >>
    /\ swept = FALSE
    /\ callTexts = << >>
    /\ config = DefaultConfig
    /\ stylisticWarnings = DefaultStylisticWarnings
    /\ includePath = DefaultIncludePath
    /\ awkPath \in AwkPaths
    /\ callbackDoc = 0
    /\ callbacks = GrammarCallbacks

\* the parse of one function declaration with the given spacing
DeclareSpaced(fn, ignores) ==
    /\ pc = "declare"
    /\ docs' = [docs EXCEPT ![1] = function_declaration(@, 1, fn, ignores, 1, "")]
    /\ cur' = [fn |-> fn, ignores |-> ignores]
    /\ pc' = "declared"
    /\ UNCHANGED <<config, stylisticWarnings, callbacks, includePath, awkPath, callbackDoc>>
    /\ UNCHANGED <<documentMap, processingQueue, nrOpenReadRequests, pendingReads,
                   parseLevel, openDocs, todo, swept, callTexts>>

\* the settings the editor sends before the text is parsed
DeclSettings ==
    [maxNumberOfProblems : {<< >>},
     mode : {<< >>, <<"awk">>},
     path : {<< >>, << << <<"l">> >> >>},
     stylisticWarnings :
        {<< >>} \cup {<<w>> : w \in [missingSemicolon : {<< >>, <<TRUE>>},
                                     compatibility : {<< >>, <<FALSE>>}]}]

\* connection.onDidChangeConfiguration while no document is open
DeclConfigChange(settings) ==
    /\ pc = "declare"
    /\ LET r == updateConfiguration(settings)
       IN /\ config' = r.config
          /\ stylisticWarnings' = r.stylisticWarnings
          /\ includePath' = r.includePath
    /\ UNCHANGED <<docs, documentMap, processingQueue, nrOpenReadRequests, pendingReads,
                   parseLevel, openDocs, pc, cur, todo, swept, callTexts, callbacks,
                   awkPath, callbackDoc>>

\* the block of the function has the statement `x` on line 2 at position 5,
\* without semicolon: the line end is the token at position 6
StatementSep ==
    /\ pc = "declared"
    /\ docs' = [docs EXCEPT ![1] = statement_sep(@, 2, 6, 1)]
    /\ pc' = "separated"
    /\ UNCHANGED <<config, stylisticWarnings, callbacks, includePath, awkPath, callbackDoc>>
    /\ UNCHANGED <<documentMap, processingQueue, nrOpenReadRequests, pendingReads,
                   parseLevel, openDocs, cur, todo, swept, callTexts>>

NextDecl ==
    \/ \E settings \in DeclSettings : DeclConfigChange(settings)
    \/ \E fn \in FunNames, ignores \in SeqsUpTo(IgnoreBuffers, MaxFormals) :
          DeclareSpaced(fn, ignores)
    \/ StatementSep

SpecDecl == InitDecl /\ [][NextDecl]_vars

\* ------------------------------------------ the parser's module-level state

\* P is the parser at work: the document it reports to (doc, id) and the
\* variables of the parser module, which outlive a parse: docComment ("" for
\* undefined), globalFunctionName (<< >> for undefined, else the name of the
\* function in a one-element list), globalFunctionParameters, functionBlocks.
\* thrown is set when the parser has thrown, lastSymbolPos is then the
\* position (1-based) of the last token it accepted.

\* variableUsage(variable) for the identifier at (line, position)
variableUsage(P, variable, line, position) ==
    IF ObjHas(P.globalFunctionParameters, variable) /\ P.globalFunctionName # << >>
    THEN [P EXCEPT !.doc =
            usageFun(@, P.id,
                     IF ObjTruthy(P.globalFunctionParameters, variable)
                     THEN "parameter" ELSE "localVariable",
                     P.globalFunctionName[1], variable, ParserPos(line, position))]
    ELSE [P EXCEPT !.doc = usageFun(@, P.id, "globalVariable", "", variable,
                                    ParserPos(line, position))]

exitFunction(P) ==
    [P EXCEPT !.globalFunctionName = << >>, !.globalFunctionParameters = << >>]

\* function_definition for the line `function f(p1) { p1 }`, whose block uses
\* the listed variables: the name token is at position 10, the parameter at
\* 11 + Len(fn), the right parenthesis behind it, the left brace at
\* 15 + Len(fn) and the variable used at 17 + Len(fn). With throws the parser
\* throws in the block, behind the last token it accepted there (the
\* variable used, or the left brace of a block that uses none), before
\* exitFunction.
\* enterFunction throws when the define callback is undefined (nothing was
\* done) or returns nothing (globalFunctionName is undefined then);
\* enterFunctionBlock throws, behind the right parenthesis, when no
\* registerNumberOfParameters was set.
\* P is the parser when the block of fn has been entered
function_block(P, fn, uses, line, throws) ==
    IF throws
    THEN [(IF uses = << >> THEN P
           ELSE variableUsage(P, uses[1], line, 17 + Len(fn)))
             EXCEPT !.thrown = TRUE,
                    !.lastSymbolPos =
                       [line |-> line,
                        position |-> IF uses = << >> THEN 15 + Len(fn) ELSE 17 + Len(fn)]]
    ELSE exitFunction(IF uses = << >> THEN P
                      ELSE variableUsage(P, uses[1], line, 17 + Len(fn)))

\* P is the parser in front of the definition, d the document when the
\* declaration is through or has thrown
function_body(P, d, fn, uses, line, throws) ==
    IF enterFunctionThrows
    THEN [P EXCEPT !.doc = d,
                   !.globalFunctionName =
                      IF callbacks.defineFun = "undefined" THEN @ ELSE << >>,
                   !.thrown = TRUE,
                   !.lastSymbolPos = [line |-> line, position |-> 10]]
    ELSE IF enterFunctionBlockThrows
    THEN [P EXCEPT !.doc = d,
                   !.globalFunctionName = <<fn>>,
                   !.globalFunctionParameters = ObjSet(@, ParamName(1), TRUE),
                   !.docComment = "",
                   !.thrown = TRUE,
                   !.lastSymbolPos =
                      [line |-> line, position |-> 11 + Len(fn) + Len(ParamName(1))]]
    ELSE function_block([P EXCEPT !.doc = d,
                                  !.globalFunctionName = <<fn>>,
                                  !.globalFunctionParameters = ObjSet(@, ParamName(1), TRUE),
                                  !.docComment = "",
                                  !.functionBlocks = Append(@, fn)],
                        fn, uses, line, throws)

function_definition(P, fn, uses, line, throws) ==
    function_body(P, function_declaration(P.doc, P.id, fn, SingleBlanks(1), line,
                                          P.docComment),
                  fn, uses, line, throws)

\* the action of awk_file behind a function definition, unless it has thrown
behindDefinition(P) == [P EXCEPT !.docComment = IF P.thrown THEN @ ELSE ""]

\* the SEQUENCE of awk_file from line i on. A line is a doc-comment, a
\* function definition, or a block that uses a variable.
RECURSIVE awk_file_sequence(_, _, _)
awk_file_sequence(P, lines, i) ==
    IF i > Len(lines) \/ P.thrown THEN P
    ELSE LET l == lines[i]
             P1 == CASE l.kind = "doc_comment" ->
                          [P EXCEPT !.docComment =
                              IF @ = "" THEN l.text ELSE @ \o "\n" \o l.text]
                      [] l.kind = "function_definition" ->
                          behindDefinition(
                             function_definition(P, l.name, l.uses, i, l.throws))
                      [] l.kind = "line_block" ->
                          [variableUsage(P, l.uses[1], i, 3) EXCEPT !.docComment = ""]
         IN awk_file_sequence(P1, lines, i + 1)

\* awk_file: init(), which empties functionBlocks, then the lines
awk_file(P, lines) == awk_file_sequence([P EXCEPT !.functionBlocks = << >>], lines, 1)

\* the lines of the texts parsed
FileLines ==
    {[kind |-> "doc_comment", text |-> "## c", name |-> "", uses |-> << >>,
      throws |-> FALSE]}
    \cup {[kind |-> "function_definition", text |-> "", name |-> "f", uses |-> u,
            throws |-> t] : u \in {<< >>, <<ParamName(1)>>}, t \in BOOLEAN}
    \cup {[kind |-> "line_block", text |-> "", name |-> "", uses |-> <<ParamName(1)>>,
            throws |-> FALSE]}

\* the callbacks a parse runs with: those of the grammar's shape, those
\* validateTextDocument sets, and the former without registerNumberOfParameters
ParserCallbacks ==
    {GrammarCallbacks, ServerCallbacks,
     [GrammarCallbacks EXCEPT !.registerNumberOfParameters = "undefined"]}

\* the parser module as it is loaded, and the callbacks set
InitParser ==
    /\ docs = <<NewDocument("a.awk"), NewDocument("b.awk"), NewDocument("c.awk")>>
    /\ documentMap = <<[key |-> "a.awk", value |-> 1], [key |-> "b.awk", value |-> 2],
                       [key |-> "c.awk", value |-> 3]>>
    /\ processingQueue = << >>
    /\ nrOpenReadRequests = 0
    /\ pendingReads = {}
    /\ parseLevel = 0
    /\ openDocs = << >>
    /\ pc = "parser"
    /\ cur = [docComment |-> "", globalFunctionName |-> << >>,
              globalFunctionParameters |-> << >>, functionBlocks |-> << >>,
              parsed |-> 0, text |-> << >>]
    /\ todo = << >>
    /\ swept = FALSE
    /\ callTexts = << >>
    /\ config = DefaultConfig
    /\ stylisticWarnings = DefaultStylisticWarnings
    /\ includePath = DefaultIncludePath
    /\ awkPath = << >>
    /\ callbackDoc = 0
    /\ callbacks \in ParserCallbacks

\* validateText behind clear(): parse(text), the catch, finishPositionTree
catchAndFinish(P) ==
    [P EXCEPT !.doc =
        [(IF P.thrown
          THEN messageFun(@, "error", "exception", "parser crash",
                          ParserPos(P.lastSymbolPos.line, P.lastSymbolPos.position), 100)
          ELSE @)
            EXCEPT !.positionTree = finishPositionTree(@)]]

validateText(P, lines) == catchAndFinish(awk_file(P, lines))

\* validateText has returned P for document id: the document it leaves and
\* the variables of the parser module
Returned(P, id, lines) ==
    /\ docs' = [docs EXCEPT ![id] = P.doc]
    /\ cur' = [docComment |-> P.docComment,
               globalFunctionName |-> P.globalFunctionName,
               globalFunctionParameters |-> P.globalFunctionParameters,
               functionBlocks |-> P.functionBlocks,
               parsed |-> id, text |-> lines]

\* validateText for the next document
ParseFile(lines) ==
    /\ pc = "parser"
    /\ cur.parsed < Len(docs)
    /\ Returned(validateText([doc |-> clear(docs, cur.parsed + 1)[cur.parsed + 1],
                              id |-> cur.parsed + 1,
                              docComment |-> cur.docComment,
                              globalFunctionName |-> cur.globalFunctionName,
                              globalFunctionParameters |-> cur.globalFunctionParameters,
                              functionBlocks |-> cur.functionBlocks,
                              thrown |-> FALSE,
                              lastSymbolPos |-> [line |-> 1, position |-> 1]], lines),
                cur.parsed + 1, lines)
    /\ UNCHANGED <<config, stylisticWarnings, callbacks, includePath, awkPath, callbackDoc>>
    /\ UNCHANGED <<documentMap, processingQueue, nrOpenReadRequests, pendingReads,
                   parseLevel, openDocs, pc, todo, swept, callTexts>>

NextParser == \E lines \in SeqsUpTo(FileLines, MaxLines - 1) : ParseFile(lines)

SpecParser == InitParser /\ [][NextParser]_vars

\* ------------------------------------------------ position -> usage lookup

\* compare of findSymbolForPosition.binsearch: usage a against position b,
\* whose line and character are numbers. a.symbol.length is read when the
\* lines are the same: that throws a TypeError when the symbol is undefined.
compareThrows(a, b) == a.position.line = b.line /\ a.symbol = undefinedSymbol

\* the value of compare when it does not throw: a number or NaN. A comparison
\* with NaN is false, a difference or a sum with NaN is NaN.
compareUsage(a, b) ==
    LET length == symbolLength(a.symbol)
        character == a.position.character
    IN IF a.position.line # b.line
       THEN IF a.position.line = NaN THEN NaN ELSE a.position.line - b.line
       ELSE IF b.character = character /\ length = 0 THEN 0
       ELSE IF character # NaN /\ length # NaN /\ b.character > character + length THEN -1
       ELSE IF character # NaN /\ b.character < character THEN 1
       ELSE 0

\* what a request leaves in place of a usage when compare threw
TypeError == [symbol |-> "", type |-> "TypeError", position |-> Pos(NaN, NaN)]

\* the while loop of binsearch and the return after it; from and to are the
\* 0-based indices of the code, the result is << >> for undefined
RECURSIVE binsearchLoop(_, _, _, _)
binsearchLoop(arr, val, from, to) ==
    IF from < to
    THEN LET i == (to + from) \div 2
             res == compareUsage(arr[i + 1], val)
         IN IF compareThrows(arr[i + 1], val) THEN <<TypeError>>
            ELSE IF res # NaN /\ res < 0 THEN binsearchLoop(arr, val, i + 1, to)
            ELSE IF res # NaN /\ res > 0 THEN binsearchLoop(arr, val, from, i - 1)
            ELSE <<arr[i + 1]>>
    ELSE IF compareThrows(arr[from + 1], val) THEN <<TypeError>>
    ELSE IF compareUsage(arr[from + 1], val) = 0 THEN <<arr[from + 1]>> ELSE << >>

binsearch(arr, val) ==
    IF 0 > Len(arr) - 1 THEN << >> ELSE binsearchLoop(arr, val, 0, Len(arr) - 1)

\* findSymbolForPosition; F = [docs, documentMap]. The exception of compare
\* is not caught.
findSymbolForPosition(F, docURI, pos) ==
    IF ~MapHas(F.documentMap, docURI) THEN << >>
    ELSE LET doc == F.docs[MapGet(F.documentMap, docURI)]
             usage == binsearch(doc.usedSymbols, pos)
         IN IF usage = <<TypeError>> THEN usage
            ELSE IF usage # << >> /\ isSymbolDefineType(usage[1].type)
            THEN <<SymbolUsage(usage[1].symbol, removeSymbolDefineType(usage[1].type),
                               usage[1].position)>>
            ELSE usage

\* mutant of parameterBinsearch: the index reached is returned as it is
RECURSIVE parameterBinsearchNoStepBack(_, _, _, _)
parameterBinsearchNoStepBack(arr, val, from, to) ==
    IF from < to
    THEN LET i == (to + from) \div 2
             res == positionCompare(arr[i + 1].position, val)
         IN IF res < 0 THEN parameterBinsearchNoStepBack(arr, val, i + 1, to)
            ELSE IF res > 0 THEN parameterBinsearchNoStepBack(arr, val, from, i - 1)
            ELSE i
    ELSE from

\* binsearch of findParameterUsage from its while loop on; from and to are the
\* 0-based indices of the code, the result is the 0-based index returned
RECURSIVE parameterBinsearch(_, _, _, _)
parameterBinsearch(arr, val, from, to) ==
    IF from < to
    THEN LET i == (to + from) \div 2
             res == positionCompare(arr[i + 1].position, val)
         IN IF res < 0 THEN parameterBinsearch(arr, val, i + 1, to)
            ELSE IF res > 0 THEN parameterBinsearch(arr, val, from, i - 1)
            ELSE i
    ELSE IF positionCompare(arr[from + 1].position, val) > 0 THEN from - 1 ELSE from

\* findParameterUsage; doc is << >> for undefined, and so is the result. The
\* test of binsearch for an empty list comes first.
findParameterUsage(doc, pos) ==
    IF doc = << >> THEN << >>
    ELSE LET arr == doc[1].parameterUsage
             firstIndex == IF 0 > Len(arr) - 1 THEN -1
                           ELSE parameterBinsearch(arr, pos, 0, Len(arr) - 1)
         IN IF firstIndex = -1 THEN << >> ELSE <<arr[firstIndex + 1]>>

\* The usage lists a position is looked up in: what addSymbolUsage has
\* appended during a parse, token after token, so in ascending position order
\* with at least one character between two usages of a line. The symbols are
\* "", "a" and "ab"; the usages of one list are of one type.
UsageLists ==
    LET entries == {[symbol |-> y, position |-> Pos(l, c)] :
                       y \in {"", "a", "ab"}, l \in 0..MaxLine, c \in 0..MaxColumn}
        tokenOrder(q) ==
           \A i \in 1..(Len(q) - 1) :
              \/ q[i].position.line < q[i + 1].position.line
              \/ /\ q[i].position.line = q[i + 1].position.line
                 /\ q[i].position.character + Len(q[i].symbol)
                       < q[i + 1].position.character
    IN {[i \in 1..Len(q) |-> SymbolUsage(q[i].symbol, t, q[i].position)] :
          q \in {r \in SeqsUpTo(entries, MaxUsages) : tokenOrder(r)},
          t \in {SymbolType[i] : i \in 1..Len(SymbolType)}}

\* The parameter-usage lists a position is looked up in: what the parse of a
\* call statement of f on the first line records, and the lists of up to
\* MaxUsages events in ascending position order (two events may share a
\* position, as the start and the end of an empty argument list do).
ParameterUsageLists ==
    LET f == SymbolUsage("f", "func", Pos(0, 0))
        positions == {Pos(l, c) : l \in 0..MaxLine, c \in 0..MaxColumn}
        ascending(q) ==
           \A i \in 1..(Len(q) - 1) : positionCompare(q[i], q[i + 1]) <= 0
    IN {function_call(ParserAt(NewDocument("a.awk"), 1, 1), c).doc.parameterUsage :
           c \in {t \in CallTrees : t.name = "f"}}
       \cup {[i \in 1..Len(q) |-> ParameterUsage(f, i - 1, q[i], TRUE)] :
                q \in {r \in SeqsUpTo(positions, MaxUsages) : ascending(r)}}

\* The statements of the texts whose parse a lookup follows: the variable a
\* and the calls of f with at most one argument, one statement on a line
LookupStatements ==
    {[kind |-> "variable", name |-> "a", args |-> << >>]}
    \cup {t \in CallTrees : t.name = "f" /\ Len(t.args) <= 1}

\* the document after the parse of the statements from line i on
RECURSIVE parseStatements(_, _, _)
parseStatements(d, stmts, i) ==
    IF i > Len(stmts) THEN d
    ELSE parseStatements(
            IF stmts[i].kind = "variable"
            THEN usageFun(d, 1, "globalVariable", "", stmts[i].name, ParserPos(i, 1))
            ELSE function_call(ParserAt(d, 1, i), stmts[i]).doc,
            stmts, i + 1)

\* A lookup starts from the usage lists a parse has left: those of the texts
\* of LookupStatements under the callbacks of either shape, and under the
\* callbacks of the grammar's shape the lists of UsageLists and of
\* ParameterUsageLists.
InitLookup ==
    /\ config = DefaultConfig
    /\ stylisticWarnings = DefaultStylisticWarnings
    /\ includePath = DefaultIncludePath
    /\ awkPath = << >>
    /\ callbackDoc = 0
    /\ callbacks \in {GrammarCallbacks, ServerCallbacks}
    /\ docs \in {<<parseStatements(NewDocument("a.awk"), stmts, 1)>> :
                    stmts \in SeqsUpTo(LookupStatements, MaxLine + 1)}
                \cup (IF callbacks = GrammarCallbacks
                      THEN {<<[NewDocument("a.awk") EXCEPT !.usedSymbols = q]>> :
                               q \in UsageLists}
                           \cup {<<[NewDocument("a.awk") EXCEPT !.parameterUsage = q]>> :
                                    q \in ParameterUsageLists}
                      ELSE {})
    /\ documentMap = <<[key |-> "a.awk", value |-> 1]>>
    /\ processingQueue = << >>
    /\ nrOpenReadRequests = 0
    /\ pendingReads = {}
    /\ parseLevel = 0
    /\ openDocs = << >>
    /\ pc = "lookup"
    /\ cur = "none"
    /\ todo = << >>
    /\ swept = FALSE
    /\ callTexts = << >>

\* a request of the editor for the symbol at a position of a document
FindSymbol(docURI, pos) ==
    /\ pc = "lookup"
    /\ cur' = [uri |-> docURI, position |-> pos,
               result |-> findSymbolForPosition(
                             [docs |-> docs, documentMap |-> documentMap], docURI, pos)]
    /\ pc' = "found"
    /\ UNCHANGED <<config, stylisticWarnings, callbacks, includePath, awkPath, callbackDoc>>
    /\ UNCHANGED <<docs, documentMap, processingQueue, nrOpenReadRequests, pendingReads,
                   parseLevel, openDocs, todo, swept, callTexts>>

\* a request of the editor for the call parameter at a position of a document
FindParameterUsage(docURI, pos) ==
    /\ pc = "lookup"
    /\ cur' = [uri |-> docURI, position |-> pos,
               result |-> findParameterUsage(
                             IF MapHas(documentMap, docURI)
                             THEN <<docs[MapGet(documentMap, docURI)]>> ELSE << >>,
                             pos)]
    /\ pc' = "foundParameter"
    /\ UNCHANGED <<config, stylisticWarnings, callbacks, includePath, awkPath, callbackDoc>>
    /\ UNCHANGED <<docs, documentMap, processingQueue, nrOpenReadRequests, pendingReads,
                   parseLevel, openDocs, todo, swept, callTexts>>

\* the positions asked for reach behind the last usage of a line; for a call
\* parameter they are also the positions next to the recorded events
NextLookup ==
    \/ \E docURI \in {"a.awk", "b.awk"}, l \in 0..MaxLine, c \in 0..(MaxColumn + 3) :
          \/ FindSymbol(docURI, Pos(l, c))
          \/ FindParameterUsage(docURI, Pos(l, c))
    \/ \E i \in 1..Len(docs[1].parameterUsage), k \in {-1, 0, 1} :
          /\ docs[1].parameterUsage[i].position.character + k >= 0
          /\ FindParameterUsage("a.awk",
                                positionOffset(docs[1].parameterUsage[i].position, k))

SpecLookup == InitLookup /\ [][NextLookup]_vars

\* ================================================================= claims

Registered == MapValues(documentMap)

\* --- C1 ---------------------------------------------------------------
\* C1: for every two registered documents A and B, if B is a key of
\* A.includes then A is a key of B.includedBy and both entries are the same
\* IncludeDeclarationInfo object (same identity, same range).
C1_IncludeSymmetric ==
    \A a \in Registered : \A b \in Registered :
        b \in EMapKeys(docs[a].includes)
        => /\ a \in EMapKeys(docs[b].includedBy)
           /\ EMapGet(docs[b].includedBy, a) = EMapGet(docs[a].includes, b)

\* a chain of two include edges between three registered documents, after a sweep
C1_Witness ==
    /\ swept
    /\ \E a \in Registered, b \in Registered, c \in Registered :
          /\ b \in EMapKeys(docs[a].includes)
          /\ c \in EMapKeys(docs[b].includes)
          /\ a \in EMapKeys(docs[b].includedBy)

\* --- C2 ---------------------------------------------------------------
NoEmptyIncludedBy(F) ==
    \A i \in 1..Len(F.documentMap) :
        EMapKeys(F.docs[F.documentMap[i].value].includedBy) # {}

\* the registries closeEmptyDocuments can be called on from the current state:
\* the current one (processNextQueueItem) and, for every open registered
\* document, the one closeDocURI hands over
SweepInputs ==
    {[docs |-> docs, documentMap |-> documentMap]} \cup
    {[docs |-> [docs EXCEPT ![MapGet(documentMap, u)] =
                   removeIncludedBy(@, editorDocument)],
      documentMap |-> documentMap] :
        u \in {v \in Uris : IsOpen(v) /\ MapHas(documentMap, v)}}

\* C2: when closeEmptyDocuments returns no registered document has an empty
\* includedBy set (a document that lost its last includer is gone, and so is
\* every document that thereby lost its last includer), and the sweep loop
\* ends after at most one pass per registered document plus one.
C2_SweepRemovesUnincluded ==
    /\ swept => NoEmptyIncludedBy([docs |-> docs, documentMap |-> documentMap])
    /\ \A F \in SweepInputs :
          LET r == closeEmptyDocuments(F)
          IN /\ NoEmptyIncludedBy(r)
             /\ r.passes <= Len(F.documentMap) + 1

\* a chain of three documents was registered and the sweep dropped all of
\* them: close() leaves the includes of the closed documents in place
C2_Witness ==
    /\ swept
    /\ documentMap = << >>
    /\ Len(docs) >= 3
    /\ 2 \in EMapKeys(docs[1].includes)
    /\ 3 \in EMapKeys(docs[2].includes)

\* --- C3 ---------------------------------------------------------------
EditorRoots == {d \in Registered : editorDocument \in EMapKeys(docs[d].includedBy)}

RECURSIVE IncludeReach(_)
IncludeReach(S) ==
    LET T == S \cup UNION {EMapKeys(docs[d].includes) : d \in S}
    IN IF T = S THEN S ELSE IncludeReach(T)

\* C3: after every sweep every registered document is reachable, along
\* include edges, from a registered document that has the editor root in
\* its includedBy set.
C3_RegisteredReachableFromEditor ==
    swept => Registered \subseteq IncludeReach(EditorRoots)

\* --- C4 ---------------------------------------------------------------
\* C4: no queue item is dequeued (validateText is not entered) while the count
\* of outstanding file reads is greater than zero.
C4_NoDequeueWhileReading ==
    [][(pc = "drain" /\ pc' = "parsing") => nrOpenReadRequests = 0]_vars

\* the drain loop is stopped with an item waiting while a read is outstanding
C4_Witness ==
    /\ pc = "drain"
    /\ nrOpenReadRequests > 0
    /\ Len(processingQueue) > 0

\* --- C5 ---------------------------------------------------------------
\* C5: parseLevel is 0 whenever validateText is entered, 1 while the parser
\* runs, and 0 again when validateText has returned, also when the parser threw.
C5_SingleFlight ==
    /\ pc = "parsing" => parseLevel = 1
    /\ pc # "parsing" => parseLevel = 0

\* validateText returned after the parser threw, and the next item is waiting
C5_Witness ==
    /\ pc = "drain"
    /\ parseLevel = 0
    /\ Len(processingQueue) > 0
    /\ \E d \in DOMAIN docs :
          /\ Len(docs[d].parseDiagnostics) > 0
          /\ docs[d].parseDiagnostics[Len(docs[d].parseDiagnostics)].message = "parser crash"

\* --- C6 ---------------------------------------------------------------
\* C6: when an include directive of document A names an existing file whose
\* document B is already registered, then after the parse of A has completed
\* B is a key of A.includes and A is a key of B.includedBy.
C6_KnownIncludeRecordsEdge ==
    [][(pc = "parsing" /\ ~cur.text.crash)
        => \A i \in 1..Len(cur.text.incl) :
              LET fn == cur.text.incl[i]
              IN (fileExists(fn) /\ MapHas(documentMap, makeURI(fn))
                    /\ MapGet(documentMap, makeURI(fn)) # cur.doc)
                 => LET b == MapGet(documentMap, makeURI(fn))
                    IN /\ b \in EMapKeys(docs'[cur.doc].includes)
                       /\ cur.doc \in EMapKeys(docs'[b].includedBy)]_vars

\* ------------------------------------------ call sites of the parsed texts

\* the number of characters of a call or a number as it is written
RECURSIVE TextWidth(_)
RECURSIVE ArgsWidth(_, _)
TextWidth(e) ==
    IF e.kind = "number" THEN 1
    ELSE Len(e.name) + 1 + ArgsWidth(e.args, Len(e.args)) + 1

\* the first n arguments with the commas between them
ArgsWidth(args, n) ==
    IF n = 0 THEN 0
    ELSE ArgsWidth(args, n - 1) + (IF n > 1 THEN 1 ELSE 0) + TextWidth(args[n])

\* The call sites of a call written from 0-based character c on: the name, the
\* number of arguments written, and where the name starts
RECURSIVE CallSites(_, _)
CallSites(e, c) ==
    IF e.kind = "number" THEN {}
    ELSE {[name |-> e.name, k |-> Len(e.args), character |-> c]} \cup
         UNION {CallSites(e.args[i],
                          c + Len(e.name) + 1 + ArgsWidth(e.args, i - 1)
                            + (IF i > 1 THEN 1 ELSE 0)) : i \in 1..Len(e.args)}

\* the call sites of document d with the range of the function name
SitesOf(d) ==
    UNION {{[name |-> s.name, k |-> s.k,
             range |-> getRange(Pos(callTexts[i].line - 1, s.character), Len(s.name))] :
               s \in CallSites(callTexts[i].call, 0)} :
           i \in {j \in 1..Len(callTexts) : callTexts[j].doc = d}}

\* the text of d declares the function fn
Declares(d, fn) == Len(getSymbolDefinitions(docs[d], fn, "func")) > 0

\* the number of parameters of the last declaration of fn in d
DeclaredCount(d, fn) ==
    LET defs == getSymbolDefinitions(docs[d], fn, "func")
    IN Len(defs[Len(defs)].parameters)

\* the parameter counts fn is declared with in d and in the documents d reaches
DeclCounts(d, fn) ==
    {DeclaredCount(x, fn) : x \in {y \in IncludeReach({d}) : Declares(y, fn)}}

\* how many analysis diagnostics of d have this range and this message
NrDiagsAt(d, range, message) ==
    Cardinality({i \in 1..Len(docs[d].analysisDiagnostics) :
                    /\ docs[d].analysisDiagnostics[i].range = range
                    /\ docs[d].analysisDiagnostics[i].message = message})

\* --- C7 ---------------------------------------------------------------
\* C7: after checkFunctionCalls, every call site with k arguments of a function
\* declared with n parameters (in the document or in a document it reaches
\* over includes) has exactly one "not enough arguments" diagnostic at the
\* function name when k < n, exactly one "too many arguments" diagnostic when
\* k > n, and neither when k = n; nested calls and calls without arguments
\* are counted on their own.
C7_ArityDiagnostics ==
    pc = "checked" =>
       \A s \in SitesOf(cur.doc) : \A n \in DeclCounts(cur.doc, s.name) :
          DeclCounts(cur.doc, s.name) = {n} =>
             /\ NrDiagsAt(cur.doc, s.range, "not enough arguments")
                   = (IF s.k < n THEN 1 ELSE 0)
             /\ NrDiagsAt(cur.doc, s.range, "too many arguments")
                   = (IF s.k > n THEN 1 ELSE 0)

\* --- C8 ---------------------------------------------------------------
BuiltInNames == MapKeys(builtInSymbols)

\* C8: after checkFunctionCalls, every call site of a name that is declared
\* neither in the document nor in a document it reaches over includes and
\* that is no key of the built-in table has exactly one "undeclared function"
\* diagnostic at the function name; a call site of a declared or built-in
\* name has none.
C8_UndeclaredFunction ==
    pc = "checked" =>
       \A s \in SitesOf(cur.doc) :
          NrDiagsAt(cur.doc, s.range, "undeclared function")
             = (IF DeclCounts(cur.doc, s.name) = {} /\ s.name \notin BuiltInNames
                THEN 1 ELSE 0)

\* --- C9 ---------------------------------------------------------------
SeqRange(q) == {q[i] : i \in 1..Len(q)}

\* a includes b, b includes c, and these are all the include edges of the three
IsChain(a, b, c) ==
    /\ a # b /\ b # c /\ a # c
    /\ EMapKeys(docs[a].includes) = {b}
    /\ EMapKeys(docs[b].includes) = {c}
    /\ EMapKeys(docs[c].includes) = {}

\* C9: when A includes B and B includes C, the closure computed for A is
\* {B, C}; when the functions A calls are declared only in C and every call
\* passes as many arguments as the function has parameters, the analysis of
\* A leaves no analysis diagnostic on A.
C9_ChainFunctionVisible ==
    \A a \in DOMAIN docs, b \in DOMAIN docs, c \in DOMAIN docs :
       IsChain(a, b, c) =>
          /\ SeqRange(includedDocs(docs, a)) = {b, c}
          /\ (/\ pc = "checked" /\ cur.doc = a
              /\ \A fn \in FunNames : ~Declares(a, fn) /\ ~Declares(b, fn)
              /\ \A s \in SitesOf(a) :
                    /\ Declares(c, s.name)
                    /\ s.k = DeclaredCount(c, s.name))
             => docs[a].analysisDiagnostics = << >>

\* f(1) in a.awk, f declared with one parameter in c.awk only, analysed
C9_Witness ==
    /\ pc = "checked"
    /\ cur.doc = 1
    /\ IsChain(1, 2, 3)
    /\ docs[3].numberOfParameters = <<[key |-> "f", value |-> 1]>>
    /\ docs[1].numberOfParameters = << >>
    /\ docs[2].numberOfParameters = << >>
    /\ \E s \in SitesOf(1) : s.name = "f" /\ s.k = 1
    /\ docs[1].analysisDiagnostics = << >>

\* --- C10 --------------------------------------------------------------
\* C10: when A includes B and B includes A, the closure computation ends and
\* yields exactly {B} for A and exactly {A} for B.
C10_CycleClosure ==
    \A a \in DOMAIN docs, b \in DOMAIN docs :
       (/\ a # b
        /\ EMapKeys(docs[a].includes) = {b}
        /\ EMapKeys(docs[b].includes) = {a})
       => /\ SeqRange(includedDocs(docs, a)) = {b}
          /\ SeqRange(includedDocs(docs, b)) = {a}

\* --- C11 --------------------------------------------------------------
\* the documents other than d that d reaches over include edges
ReachedFrom(d) == IncludeReach({d}) \ {d}

\* the "already defined" diagnostics of d, as a set of ranges
AlreadyDefinedRanges(d) ==
    {docs[d].analysisDiagnostics[i].range :
        i \in {j \in 1..Len(docs[d].analysisDiagnostics) :
                  docs[d].analysisDiagnostics[j].message
                      = "already defined in ${inclDoc.uri}"}}

\* the names declared in d that a document d reaches declares as well
Clashes(d) ==
    {fn \in FunNames :
        /\ Declares(d, fn)
        /\ \E x \in ReachedFrom(d) : Declares(x, fn)}

\* C11: after checkFunctionCalls on D, D has an "already defined" diagnostic
\* for f if and only if f is declared in D and in a document other than D
\* that D reaches over include edges; the range of the diagnostic is that of
\* the first declaration of f in D. A function declared in D alone gets none,
\* also when D lies on an include cycle.
C11_AlreadyDefined ==
    pc = "checked" =>
        AlreadyDefinedRanges(cur.doc) =
            {symbolRange(getSymbolDefinitions(docs[cur.doc], fn, "func")[1]) :
                fn \in Clashes(cur.doc)}

\* --- C12 --------------------------------------------------------------
\* position q lies in the half-open span of usage u
InSpan(u, q) ==
    /\ u.position.line = q.line
    /\ IF Len(u.symbol) = 0
       THEN q.character = u.position.character
       ELSE /\ u.position.character <= q.character
            /\ q.character < u.position.character + Len(u.symbol)

\* linear scan: the first usage whose span holds q, << >> if there is none
ScanFor(arr, q) ==
    LET hits == {i \in 1..Len(arr) : InSpan(arr[i], q)}
    IN IF hits = {} THEN << >>
       ELSE <<arr[CHOOSE i \in hits : \A j \in hits : i <= j]>>

\* C12: in a usage list sorted by position, the lookup of a position returns
\* the usage whose half-open span [c, c + n) on that line holds the position
\* (a usage of length 0 only at its own position), and undefined when no span
\* holds it, as a linear scan of the list does.
C12_LookupHalfOpen ==
    (pc = "found" /\ cur.uri = "a.awk") =>
        LET scan == ScanFor(docs[1].usedSymbols, cur.position)
        IN IF scan = << >> THEN cur.result = << >>
           ELSE /\ cur.result # << >>
                /\ cur.result[1].symbol = scan[1].symbol
                /\ cur.result[1].position = scan[1].position

\* --- C20 --------------------------------------------------------------
UseTypes == {"func", "globalVariable", "localVariable", "parameter"}
DefineTypes == {"defineFunc", "defineGlobalVariable", "defineLocalVariable",
                "defineParameter"}

\* C20: getSymbolDefineType maps the four use types onto the four definition
\* types and removeSymbolDefineType maps them back, each the inverse of the
\* other, and isSymbolDefineType holds exactly for the definition types;
\* stated for the type of every usage a document holds.
C20_DefineTypesInverse ==
    \A d \in DOMAIN docs : \A i \in 1..Len(docs[d].usedSymbols) :
       LET t == docs[d].usedSymbols[i].type
       IN /\ isSymbolDefineType(t) <=> t \in DefineTypes
          /\ t \in UseTypes =>
                /\ getSymbolDefineType(t) \in DefineTypes
                /\ removeSymbolDefineType(getSymbolDefineType(t)) = t
          /\ t \in DefineTypes =>
                /\ removeSymbolDefineType(t) \in UseTypes
                /\ getSymbolDefineType(removeSymbolDefineType(t)) = t

\* --- C13 --------------------------------------------------------------
\* the names of a list of definitions
SymbolsOf(defs) == [i \in 1..Len(defs) |-> defs[i].symbol]

\* the identifiers of a list that are in front of the first one preceded by
\* more than one character of ignored text
RECURSIVE LeadingSegment(_, _)
LeadingSegment(ignores, i) ==
    IF i > Len(ignores) \/ Len(ignores[i]) > 1 THEN i - 1
    ELSE LeadingSegment(ignores, i + 1)

\* C13: in the declaration list of a function the first identifier preceded
\* by more than one space starts the local variables: it and every later
\* identifier are registered as local variables, every earlier one as a
\* parameter (an identifier with one space or none in front of it continues
\* the segment it is in), and the registered number of parameters counts the
\* parameters only.
C13_LocalVariableSegment ==
    pc = "declared" =>
        LET def == globalFunctionName(docs[1], cur.fn)
            n == Len(cur.ignores)
            k == LeadingSegment(cur.ignores, 1)
        IN /\ SymbolsOf(def.parameters) = [i \in 1..k |-> ParamName(i)]
           /\ SymbolsOf(def.localVariables) = [i \in 1..(n - k) |-> ParamName(k + i)]
           /\ ObjGet(docs[1].numberOfParameters, cur.fn) = k

\* --- C14 --------------------------------------------------------------
\* every field a parse fills is empty
ParseDerivedEmpty(d) ==
    /\ d.definedSymbols = << >>
    /\ d.usedSymbols = << >>
    /\ d.positionTree = << >>
    /\ d.functionCallStack = << >>
    /\ d.parameterUsage = << >>
    /\ d.includes = << >>
    /\ d.numberOfParameters = << >>
    /\ d.parseDiagnostics = << >>

\* C14: every clear() of a document, the first one as well as one that
\* follows a complete parse, leaves each parse-derived field (symbol tables,
\* usage list, position tree, function-call stack, parameter usages,
\* includes, function table, parse diagnostics) empty, so equal to its value
\* after the first clear(), and leaves the document in no other document's
\* includedBy.
C14_ClearIdempotent ==
    [][(pc = "parsed" /\ pc' = "parse") =>
          /\ ParseDerivedEmpty(docs'[1])
          /\ \A e \in DOMAIN docs' : e # 1 => ~EMapHas(docs'[e].includedBy, 1)]_vars

\* the second clear() of a.awk, after a parse that declared a function
C14_Witness ==
    /\ pc = "parse"
    /\ cur.op = "clear"
    /\ cur.parses = 2
    /\ cur.events > 1
    /\ cur.prevMap # << >>
    /\ ParseDerivedEmpty(docs[1])
    /\ Len(docs) = 2
    /\ docs[2].includedBy = << >>

\* --- C15 --------------------------------------------------------------
\* a function table as the set of its entries
Entries(m) == {<<m[i].key, m[i].value>> : i \in 1..Len(m)}

\* C15: right after every clear() the snapshot is the function table the
\* parse before it produced, and functionInformationHasChanged() returns true
\* exactly when the table of the last parse differs from the table of the
\* parse before it.
C15_SnapshotIsPreviousMap ==
    [][/\ (pc = "parsed" /\ pc' = "parse") =>
             docs'[1].oldNumberOfParameters =
                [defined |-> TRUE, value |-> docs[1].numberOfParameters]
       /\ cur'.op = "compare" =>
             cur'.changed = (Entries(docs[1].numberOfParameters) #
                            Entries(cur.prevMap))]_vars

\* --- C16 --------------------------------------------------------------
\* the severity a diagnostic is shown with: one without severity is shown
\* as an error
severityShown(diag) == IF diag.severity = 0 THEN 1 ELSE diag.severity

\* C16: a published list has at most maxNumberOfProblems entries; when the
\* document stores more diagnostics than that, no diagnostic left out is more
\* severe than a published one (errors are kept before warnings) and the
\* published list is in ascending order of the start positions; publishing
\* leaves the stored lists as they are.
C16_CapKeepsMostSevere ==
    [][(cur'.op = "send" /\ cur'.sent) =>
          LET stored == docs[1].parseDiagnostics \o docs[1].analysisDiagnostics
              published == cur'.diagnostics
              left == SeqRange(stored) \ SeqRange(published)
          IN /\ Len(published) <= cur'.max
             /\ SeqRange(published) \subseteq SeqRange(stored)
             /\ Len(stored) > cur'.max =>
                   /\ \A x \in left : \A y \in SeqRange(published) :
                         severityShown(x) >= severityShown(y)
                   /\ \A i \in 1..(Len(published) - 1) :
                         positionCompare(published[i].range.start,
                                         published[i + 1].range.start) <= 0
             /\ docs'[1].parseDiagnostics = docs[1].parseDiagnostics
             /\ docs'[1].analysisDiagnostics = docs[1].analysisDiagnostics]_vars

\* --- C17 --------------------------------------------------------------
\* the messages addInclude has for a directive without file
NoSuchFileMessages ==
    {"no such file: " \o f \o " (" \o u \o ")" : f \in Targets, u \in Uris}

\* C17: when the read of a newly discovered include ends with an error, the
\* including document gets a "no such file" error diagnostic at the range of
\* the directive, no new read is issued, and the queue is processed on.
C17_ReadFailureDiagnostic ==
    [][(/\ pc = "idle" /\ pc' = "drain"
        /\ nrOpenReadRequests' = nrOpenReadRequests - 1
        /\ processingQueue' = processingQueue)
       => \A r \in pendingReads \ pendingReads' :
             /\ pendingReads' \subseteq pendingReads
             /\ \E d \in DOMAIN docs' :
                   /\ EMapHas(docs[d].includes, r.doc)
                   /\ \E i \in 1..Len(docs'[d].parseDiagnostics) :
                         LET diag == docs'[d].parseDiagnostics[i]
                         IN /\ diag.severity = 1
                            /\ diag.message \in NoSuchFileMessages
                            /\ diag.range = EMapGet(docs[d].includes, r.doc).range]_vars

\* --- C18 --------------------------------------------------------------
\* C18: when the parser throws, validateText returns with exactly one
\* "parser crash" error among the parse diagnostics of the document, at the
\* position of the last consumed token, whatever the parser reported before.
C18_CrashDiagnostic ==
    [][(pc = "parsing" /\ pc' = "drain" /\ cur.text.crash) =>
          LET D == docs'[cur.doc].parseDiagnostics
              p == lastSymbolPos(Len(cur.text.incl))
              crashes == {i \in 1..Len(D) : D[i].message = "parser crash"}
          IN /\ Cardinality(crashes) = 1
             /\ \A i \in crashes :
                   /\ D[i].severity = 1
                   /\ D[i].range.start = Pos(p.line - 1, p.position - 1)]_vars

\* --- C19 --------------------------------------------------------------
\* the diagnostic of the i-th directive of document d when it names NoFile
NoSuchFileDiagnostic(d, i) ==
    [severity |-> 1,
     range |-> getRange(Pos(includeTokenPos(i).line - 1, includeTokenPos(i).position - 1), 7),
     message |-> "no such file: " \o NoFile \o " (" \o docs[d].uri \o ")"]

\* C19: for a directive whose file name has no existing candidate path the
\* parse records a "no such file" error at the range of the directive on the
\* including document and changes nothing else: no document is made or
\* registered, no edge is recorded, no read is issued.
C19_MissingIncludeOnlyDiagnostic ==
    [][(/\ pc = "parsing" /\ pc' = "drain"
        /\ ~cur.text.crash
        /\ cur.text.incl # << >>
        /\ \A i \in 1..Len(cur.text.incl) : cur.text.incl[i] = NoFile)
       => /\ docs' = [docs EXCEPT
                        ![cur.doc].parseDiagnostics =
                           [i \in 1..Len(cur.text.incl) |-> NoSuchFileDiagnostic(cur.doc, i)],
                        ![cur.doc].errorsChanged = TRUE]
          /\ documentMap' = documentMap
          /\ nrOpenReadRequests' = nrOpenReadRequests
          /\ pendingReads' = pendingReads]_vars

\* a.awk, whose only directive names a file without candidate path, was
\* parsed: it has the diagnostic, no edge, and is still the only document
C19_Witness ==
    /\ pc = "drain"
    /\ Len(docs) = 1
    /\ docs[1].parseDiagnostics = <<NoSuchFileDiagnostic(1, 1)>>
    /\ docs[1].includes = << >>
    /\ MapKeys(documentMap) = {docs[1].uri}
    /\ nrOpenReadRequests = 0

\* --- C21 --------------------------------------------------------------
\* the step ran finishUpProcessing: processNextQueueItem behind its loop, or
\* closeDocURI for a registered document
FinishUpStep ==
    \/ pc = "drain" /\ pc' # "parsing" /\ swept'
    \/ \E u \in Uris :
          /\ IsOpen(u)
          /\ ~(\E i \in 1..Len(openDocs') : openDocs'[i].uri = u)
          /\ MapHas(documentMap, u)

\* C21: the sweep and the flush of the diagnostics run only at the end of a
\* drain: never while a file read is outstanding, never while an item is in
\* the processing queue.
C21_FlushOnlyAtEndOfDrain ==
    [][FinishUpStep => nrOpenReadRequests = 0 /\ processingQueue = << >>]_vars

\* --- C22 --------------------------------------------------------------
\* the last parse diagnostic of d, reported once more
RepeatLast(d) ==
    [d.parseDiagnostics[Len(d.parseDiagnostics)] EXCEPT !.message = "again"]

\* C22: no two consecutive parse diagnostics of a document start at the same
\* position. addParseDiagnostic drops a diagnostic that starts where the last
\* stored one starts and stores any other; addAnalysisDiagnostic appends
\* whatever it is given.
C22_NoRepeatedStart ==
    \A x \in DOMAIN docs :
       LET d == docs[x]
           D == d.parseDiagnostics
       IN /\ \A i \in 1..(Len(D) - 1) :
                positionCompare(D[i].range.start, D[i + 1].range.start) # 0
          /\ D # << >> =>
                /\ addParseDiagnostic(d, RepeatLast(d)) = d
                /\ LET next == [RepeatLast(d) EXCEPT
                                   !.range = getRange(positionOffset(@.start, 1), 1)]
                   IN addParseDiagnostic(d, next).parseDiagnostics = Append(D, next)
                /\ LET r == addAnalysisDiagnostic(addAnalysisDiagnostic(d, RepeatLast(d)),
                                                  RepeatLast(d))
                   IN r.analysisDiagnostics =
                         d.analysisDiagnostics \o <<RepeatLast(d), RepeatLast(d)>>

\* a.awk was parsed with a text whose only directive names a missing file and
\* on which the parser then threw: of the two diagnostics reported at the
\* file-name token the first is stored
C22_Witness ==
    /\ pc = "drain"
    /\ processingQueue = << >>
    /\ Len(docs) = 1
    /\ openDocs = <<[uri |-> docs[1].uri, text |-> [incl |-> <<NoFile>>, crash |-> TRUE]]>>
    /\ docs[1].parseDiagnostics = <<NoSuchFileDiagnostic(1, 1)>>

\* --- C23 --------------------------------------------------------------
\* the list is sorted by position
PositionSorted(arr) ==
    \A i, j \in 1..Len(arr) :
       i < j => positionCompare(arr[i].position, arr[j].position) <= 0

\* linear scan: the indices of the events at or before q
AtOrBefore(arr, q) == {i \in 1..Len(arr) : positionCompare(arr[i].position, q) <= 0}

\* C23: in a parameter-usage list sorted by position, findParameterUsage
\* returns an event of the list at the greatest position at or before the
\* position asked for, as a linear scan finds it, and undefined when the list
\* is empty or all its events lie behind that position.
C23_NearestAtOrBefore ==
    (pc = "foundParameter" /\ cur.uri = "a.awk"
        /\ PositionSorted(docs[1].parameterUsage)) =>
        LET arr == docs[1].parameterUsage
            scan == AtOrBefore(arr, cur.position)
        IN IF scan = {} THEN cur.result = << >>
           ELSE /\ cur.result # << >>
                /\ \E i \in scan :
                      /\ cur.result[1] = arr[i]
                      /\ \A j \in scan :
                            positionCompare(arr[j].position, arr[i].position) <= 0

\* a list of three events at three positions was asked for a position
\* between the first two, and the first was found
C23_Witness ==
    /\ pc = "foundParameter"
    /\ cur.uri = "a.awk"
    /\ Len(docs[1].parameterUsage) = 3
    /\ PositionSorted(docs[1].parameterUsage)
    /\ positionCompare(docs[1].parameterUsage[1].position, cur.position) < 0
    /\ positionCompare(cur.position, docs[1].parameterUsage[2].position) < 0
    /\ positionCompare(docs[1].parameterUsage[2].position,
                       docs[1].parameterUsage[3].position) < 0
    /\ cur.result = <<docs[1].parameterUsage[1]>>

\* --- C24 --------------------------------------------------------------
\* what the parse of the text by a parser module just loaded leaves in a
\* document just made
FreshParse(id, lines) ==
    validateText([doc |-> docs[id], id |-> id, docComment |-> "",
                  globalFunctionName |-> << >>,
                  globalFunctionParameters |-> << >>,
                  functionBlocks |-> << >>, thrown |-> FALSE,
                  lastSymbolPos |-> [line |-> 1, position |-> 1]], lines).doc

\* C24: the definitions, usages and diagnostics a parse leaves in a document
\* are those the same text gives with a parser module just loaded, whatever
\* was parsed before and however those parses ended.
C24_ParseIndependentOfHistory ==
    [][\A id \in DOMAIN docs :
          (cur'.parsed = id /\ cur.parsed = id - 1) =>
             LET fresh == FreshParse(id, cur'.text)
             IN /\ docs'[id].definedSymbols = fresh.definedSymbols
                /\ docs'[id].usedSymbols = fresh.usedSymbols
                /\ docs'[id].parseDiagnostics = fresh.parseDiagnostics]_vars

\* --- C25 --------------------------------------------------------------
\* C25 as stated: a document without recorded call has no analysis
\* diagnostic after checkFunctionCalls, whatever it and the documents it
\* reaches declare.
C25_NoCallNoDiagnostic ==
    (pc = "checked" /\ Len(docs[cur.doc].parameterUsage) = 0) =>
        docs[cur.doc].analysisDiagnostics = << >>

\* the documents d reaches over one include edge or more: d is one of them
\* when an include path leads back to it
IncludeClosure(d) == IncludeReach(EMapKeys(docs[d].includes))

\* the documents of the closure of d whose function table has the key fn
TableHolders(d, fn) ==
    {x \in IncludeClosure(d) : MapHas(docs[x].numberOfParameters, fn)}

\* the names that are keys of the function table of d and of the function
\* table of a document of the closure of d
TableClashes(d) ==
    {fn \in FunNames :
        MapHas(docs[d].numberOfParameters, fn) /\ TableHolders(d, fn) # {}}

\* C25 amended: a document without recorded call has no call diagnostic after
\* checkFunctionCalls; its analysis diagnostics are the "already defined"
\* diagnostics of the functions that its function table holds together with
\* the function table of a document of its include closure, each at the
\* first declaration in the document, one for every such document. The
\* closure holds the documents reached over one include edge or more, the
\* document itself among them when an include path leads back to it.
C25_NoCallOnlyAlreadyDefined ==
    (pc = "checked" /\ Len(docs[cur.doc].parameterUsage) = 0) =>
        LET D == docs[cur.doc].analysisDiagnostics
        IN /\ \A i \in 1..Len(D) : D[i].message = "already defined in ${inclDoc.uri}"
           /\ {D[i].range : i \in 1..Len(D)} =
                 {symbolRange(getSymbolDefinitions(docs[cur.doc], fn, "func")[1]) :
                     fn \in TableClashes(cur.doc)}
           /\ \A fn \in TableClashes(cur.doc) :
                 NrDiagsAt(cur.doc,
                           symbolRange(getSymbolDefinitions(docs[cur.doc], fn, "func")[1]),
                           "already defined in ${inclDoc.uri}")
                    = Cardinality(TableHolders(cur.doc, fn))

\* b.awk records no call, declares f and g and includes c.awk, which declares
\* f: the analysis of b.awk leaves the one diagnostic for f
C25_Witness ==
    /\ pc = "checked"
    /\ cur.doc = 2
    /\ Len(docs[2].parameterUsage) = 0
    /\ EMapKeys(docs[2].includes) = {3}
    /\ Declares(2, "f")
    /\ Declares(2, "g")
    /\ Declares(3, "f")
    /\ ~Declares(3, "g")
    /\ Len(docs[2].analysisDiagnostics) = 1
    /\ docs[2].analysisDiagnostics[1].range =
          symbolRange(getSymbolDefinitions(docs[2], "f", "func")[1])

\* --- C26 --------------------------------------------------------------
\* C26: sendDiagnostics publishes the document exactly when, since its last
\* publish, a diagnostic was stored or a diagnostic list was reset; so a
\* flush that follows a flush without a change between them publishes
\* nothing, and a change of the stored diagnostics is published by the next
\* flush.
C26_PublishIffTouched ==
    [][cur'.op = "send" => (cur'.sent <=> cur.touched)]_vars

\* a flush that published nothing: the diagnostics stored were published by
\* an earlier flush and nothing touched them since
C26_Witness ==
    /\ cur.op = "send"
    /\ ~cur.sent
    /\ ~cur.touched
    /\ docs[1].parseDiagnostics # << >>
    /\ docs[1].analysisDiagnostics # << >>

\* --- C27 --------------------------------------------------------------
\* C27: the end of a node of the position tree, once set by an end call, is
\* not changed by any later begin or end call on the path during the parse.
C27_EndSetOnce ==
    [][cur'.op = "event" =>
          \A i \in 1..Len(docs[1].positionTree) :
             docs[1].positionTree[i].end # Pos(-1, -1) =>
                /\ i <= Len(docs'[1].positionTree)
                /\ docs'[1].positionTree[i].end = docs[1].positionTree[i].end]_vars

\* --- C28 --------------------------------------------------------------
\* C28: after every sweep each document that is open in the editor is
\* registered under its URI, whether the editor or an include directive made
\* its entry.
C28_OpenDocumentsRegistered ==
    swept => \A i \in 1..Len(openDocs) : MapHas(documentMap, openDocs[i].uri)

\* --- C29 --------------------------------------------------------------
\* C29: validateText is entered only for a document that is registered, and
\* after every step each key of the includedBy set of a registered document
\* is the editor root or a registered document.
C29_ParsedOnlyWhileRegistered ==
    [][/\ (pc = "drain" /\ pc' = "parsing") => cur'.doc \in Registered
       /\ \A d \in Registered' :
             EMapKeys(docs'[d].includedBy) \subseteq {editorDocument} \cup Registered']_vars

\* --- C30 --------------------------------------------------------------
\* items leave the processing queue at its head, into validateText, and enter
\* it at its end
QueueIsFifo ==
    [][\/ processingQueue' = processingQueue
       \/ /\ processingQueue # << >>
          /\ processingQueue' = Tail(processingQueue)
          /\ pc' = "parsing"
          /\ cur' = Head(processingQueue)
       \/ \E x \in [doc : 1..MaxDocs, text : Texts] :
             processingQueue' = Append(processingQueue, x)]_vars

\* an item queued for a document leads to the parse of that document
QueuedIsParsed ==
    \A d \in 1..MaxDocs :
       (\E i \in 1..Len(processingQueue) : processingQueue[i].doc = d)
          ~> (pc = "parsing" /\ cur.doc = d)

\* an item queued or a read outstanding leads to a state with the queue
\* empty and no read outstanding that a sweep and a flush have just left
ComesToRest ==
    (processingQueue # << >> \/ nrOpenReadRequests > 0)
       ~> (processingQueue = << >> /\ nrOpenReadRequests = 0 /\ swept)

====
